---------------------------- MODULE Spec2Model ----------------------------
(***************************************************************************)
(* A model of the Python port of StringTemplate 4                          *)
(* (src/org/stringtemplate/v4): the group namespace and its lazy loading,  *)
(* template (re)definition, template instances and their attributes, and   *)
(* the interpreter: attribute lookup, template calls and their arguments,  *)
(* map and zip, and writing through the AutoIndentWriter.                  *)
(*                                                                         *)
(* Reading conventions.  The model follows the control flow of each method *)
(* as it is written.  Java-style overloads that the port keeps under one   *)
(* name (STGroupFile.load(name) / load(), in Python the later def shadows  *)
(* the earlier one) are modelled as the two methods the file spells out,   *)
(* and ST.impl / ST.compiled are read as the same field.  Expression       *)
(* semantics are Python's: "++self.sp" is a double unary plus and does not *)
(* increment, "if prev:" tests for not-None on objects without __bool__.   *)
(* A call of a method its receiver does not define is read as the method   *)
(* of that class that does the same under another name (get_renderer:      *)
(* get_attribute_renderer, get_adaptor: get_model_adaptor, dedent:         *)
(* pop_indentation); a read of a data attribute that no class defines      *)
(* (CompiledST.args_metadata) raises AttributeError.                       *)
(***************************************************************************)
EXTENDS Integers, Sequences, FiniteSets, TLC

VARIABLES
    templates,                \* STGroup.templates: group -> name -> CompiledST
    dictionaries,             \* STGroup.dictionaries: group -> set of names
    imports,                  \* STGroup.imports: group -> sequence of groups
    imports_to_clear_on_unload, \* STGroup.imports_to_clear_on_unload
    already_loaded,           \* STGroupFile/STGroupString.already_loaded
    parses,                   \* observer: parses of the group source since unload
    last,                     \* observer: the most recent call and its outcome
    threads,                  \* concurrent callers of a group: thread -> frame
    impls,                    \* CompiledST objects: has_formal_args, formal_arguments
    sts,                      \* ST instances: impl, locals
    heap,                     \* list objects: the caller's lists and ST.AttributeLists
    added,                    \* observer: the values each attribute was given by add
    stlast,                   \* observer: the most recent ST call and its outcome
    operands,                 \* Interpreter.operands: slot (from 0) -> value
    sp,                       \* Interpreter.sp
    scope,                    \* the InstanceScope exec is running, "" outside exec
    ip,                       \* _exec's instruction pointer
    out,                      \* the AutoIndentWriter of the run
    listener,                 \* errors reported to the STErrorListener
    execs,                    \* observer: the number of exec calls so far
    ilast,                    \* observer: the most recent instruction and its outcome
    prev_opcode,              \* _exec's prev_opcode
    frames,                   \* the _exec calls suspended in _write_template
    calls,                    \* observer: the calls of a function-level run
    lexer,                    \* an STLexer: input, index, c, subtemplate_depth
    registry,                 \* a TypeRegistry: _backing_store, _cache
    tlast,                    \* observer: the most recent call on the registry
    group_dir,                \* an STGroupDir and the files around it
    compiled                  \* a CompiledST: its FormalArguments, each with its index

groupVars == <<templates, dictionaries, imports, imports_to_clear_on_unload,
               already_loaded, parses, last>>

stVars == <<impls, sts, heap, added, stlast>>

interpVars == <<operands, sp, scope, ip, out, listener, execs, ilast,
                prev_opcode, frames, calls>>

toolVars == <<lexer, registry, tlast, group_dir, compiled>>

vars == <<templates, dictionaries, imports, imports_to_clear_on_unload,
          already_loaded, parses, last, threads, stVars, interpVars,
          toolVars>>

---------------------------------------------------------------------------
(* Bounds *)
MaxImports == 2          \* longest imports list built by import_templates
MaxImportEdges == 2      \* import_templates calls over all groups
RecursionLimit == 4      \* call depth at which Python raises RecursionError
NumThreads == 2          \* threads that call into one group concurrently

---------------------------------------------------------------------------
(* The groups, the names and the sources used as inputs *)

Groups == {"g1", "gf", "gs"}

GroupKind(g) ==
    CASE g = "g1" -> "STGroup"
      [] g = "gf" -> "STGroupFile"
      [] g = "gs" -> "STGroupString"

TemplateNames == {"/a", "/b"}
RegionName == "/region__/a__r"
Names == TemplateNames \cup {RegionName}
Bodies == {"t1", "t2"}

IMPLICIT == "IMPLICIT"
EMBEDDED == "EMBEDDED"
EXPLICIT == "EXPLICIT"

\* Python's None where a CompiledST is expected
None == [name |-> "None", body |-> "None", is_region |-> FALSE,
         region_def_type |-> "None", native_group |-> "None", subs |-> <<>>]

\* CompiledST(): a fresh compiled template with the constructor's defaults
CompiledST == [name |-> "", body |-> "", is_region |-> FALSE,
               region_def_type |-> "None", native_group |-> "default_group",
               subs |-> <<>>]

\* STGroup.NOT_FOUND_ST: the one CompiledST() that caches a failed lookup
NOT_FOUND_ST == [CompiledST EXCEPT !.body = "NOT_FOUND_ST"]

\* the result of STGroup.compile for a template, and for a region of a template
\* a region of template "enclosing" as the code generator leaves it in the
\* enclosing template's implicitly_defined_templates (IMPLICIT for <@r()>,
\* EMBEDDED for <@r>...<@end>)
get_mangled_region_name(enclosing_template_name, name) ==
    "/region__" \o enclosing_template_name \o "__" \o name

RegionCode(enclosing, r, body, rtype) ==
    [CompiledST EXCEPT !.name = get_mangled_region_name(enclosing, r),
                       !.body = body, !.is_region = TRUE,
                       !.region_def_type = rtype]

\* the result of STGroup.compile: the template and the sub-templates and
\* regions its body defines implicitly
compile(name, body, subs) ==
    [CompiledST EXCEPT !.name = name, !.body = body, !.subs = subs]

\* what the group file / group string of a lazily loaded group defines
GroupSource(g) ==
    CASE g = "gf" -> << [kind |-> "template", name |-> "/a", body |-> "t1"],
                        [kind |-> "dictionary", name |-> "d", body |-> ""] >>
      [] g = "gs" -> << [kind |-> "template", name |-> "/b", body |-> "t2"] >>
      [] OTHER -> << >>

DictNames == {"d"}


---------------------------------------------------------------------------
(* The group state as one value, threaded through the methods below.  errs, *)
(* loads, searches and unloaded observe what one top-level call did.       *)

Cur ==
    [templates |-> templates, dictionaries |-> dictionaries,
     imports |-> imports,
     imports_to_clear_on_unload |-> imports_to_clear_on_unload,
     already_loaded |-> already_loaded, parses |-> parses,
     errs |-> <<>>, loads |-> 0, searches |-> 0, unloaded |-> {}]

\* ErrorManager.compile_time_error: hand the error to the listener
compile_time_error(S, error) == [S EXCEPT !.errs = Append(@, error)]

raw_get_template(S, g, name) == S.templates[g][name]

\* raw_define_template without the return after TEMPLATE_REDEFINITION
raw_define_template_no_return(S, g, name, code) ==
    LET prev == raw_get_template(S, g, name)
        installed ==
            [S EXCEPT !.templates[g][name] = [code EXCEPT !.native_group = g]]
    IN  IF prev # None /\ ~prev.is_region
        THEN compile_time_error(installed, "TEMPLATE_REDEFINITION")
        ELSE IF /\ prev # None
                /\ code.region_def_type # IMPLICIT
                /\ prev.region_def_type = EMBEDDED
        THEN compile_time_error(S, "EMBEDDED_REGION_REDEFINITION")
        ELSE IF /\ prev # None
                /\ \/ code.region_def_type = IMPLICIT
                   \/ prev.region_def_type = EXPLICIT
        THEN compile_time_error(S, "REGION_REDEFINITION")
        ELSE installed

\* raw_define_template that lets an explicit region replace any region but
\* an embedded one
raw_define_template_any_explicit(S, g, name, code) ==
    LET prev == raw_get_template(S, g, name)
        installed ==
            [S EXCEPT !.templates[g][name] = [code EXCEPT !.native_group = g]]
    IN  IF prev # None /\ ~prev.is_region
        THEN compile_time_error(S, "TEMPLATE_REDEFINITION")
        ELSE IF /\ prev # None
                /\ code.region_def_type # IMPLICIT
                /\ prev.region_def_type = EMBEDDED
        THEN compile_time_error(S, "EMBEDDED_REGION_REDEFINITION")
        ELSE IF prev # None /\ code.region_def_type = IMPLICIT
        THEN compile_time_error(S, "REGION_REDEFINITION")
        ELSE installed

raw_define_template(S, g, name, code) ==
    LET prev == raw_get_template(S, g, name)
        installed ==
            [S EXCEPT !.templates[g][name] = [code EXCEPT !.native_group = g]]
    IN  IF prev # None
        THEN IF ~prev.is_region
             THEN compile_time_error(S, "TEMPLATE_REDEFINITION")
             ELSE IF /\ code.region_def_type # IMPLICIT
                     /\ prev.region_def_type = EMBEDDED
                  THEN compile_time_error(S, "EMBEDDED_REGION_REDEFINITION")
                  ELSE IF \/ code.region_def_type = IMPLICIT
                          \/ prev.region_def_type = EXPLICIT
                       THEN compile_time_error(S, "REGION_REDEFINITION")
                       ELSE installed
        ELSE installed

RECURSIVE define_implicitly_defined_templates_from(_, _, _, _)
define_implicitly_defined_templates_from(S, g, subs, i) ==
    IF i > Len(subs) THEN S
    ELSE define_implicitly_defined_templates_from(
             raw_define_template(S, g, subs[i].name, subs[i]), g, subs, i + 1)

\* CompiledST.define_implicitly_defined_templates (sub-templates of the
\* inputs have no sub-templates of their own)
define_implicitly_defined_templates(S, g, code) ==
    define_implicitly_defined_templates_from(S, g, code.subs, 1)

define_template_helper(S, g, name, body, subs) ==
    LET code == compile(name, body, subs)
    IN  define_implicitly_defined_templates(
            raw_define_template(S, g, name, code), g, code)

define_dictionary(S, g, name) ==
    [S EXCEPT !.dictionaries[g] = @ \cup {name}]

RECURSIVE GroupParser_group(_, _, _, _)
GroupParser_group(S, g, src, i) ==
    IF i > Len(src) THEN S
    ELSE LET d == src[i]
             S1 == IF d.kind = "template"
                   THEN define_template_helper(S, g, d.name, d.body, <<>>)
                   ELSE define_dictionary(S, g, d.name)
         IN  GroupParser_group(S1, g, src, i + 1)

load_group_unflagged(S, g) ==
    GroupParser_group([S EXCEPT !.parses[g] = @ + 1], g, GroupSource(g), 1)

\* STGroupFile.load() / STGroupString.load(): the argument-less load
load_group(S, g) ==
    IF S.already_loaded[g] THEN S
    ELSE GroupParser_group(
             [S EXCEPT !.already_loaded[g] = TRUE, !.parses[g] = @ + 1],
             g, GroupSource(g), 1)

\* load(name): STGroup.load returns None, a file or string group loads its
\* source on first use
load(S, g, name) ==
    LET S0 == [S EXCEPT !.loads = @ + 1]
    IN  IF GroupKind(g) = "STGroup"
        THEN [S |-> S0, code |-> None, raised |-> ""]
        ELSE LET S1 == IF ~S0.already_loaded[g] THEN load_group(S0, g) ELSE S0
             IN  [S |-> S1, code |-> raw_get_template(S1, g, name),
                  raised |-> ""]

\* self.templates[name] = STGroup.NOT_FOUND_ST
cache_miss_dropped(S, g, name) == S

cache_miss(S, g, name) == [S EXCEPT !.templates[g][name] = NOT_FOUND_ST]

RECURSIVE lookup_template(_, _, _, _)
RECURSIVE lookup_imported_template_from(_, _, _, _, _)

lookup_imported_template_from(S, g, name, i, depth) ==
    IF i > Len(S.imports[g])
    THEN [S |-> S, code |-> None, raised |-> ""]
    ELSE LET r == lookup_template([S EXCEPT !.searches = @ + 1],
                                  S.imports[g][i], name, depth + 1)
         IN  IF r.raised # "" \/ r.code # None THEN r
             ELSE lookup_imported_template_from(r.S, g, name, i + 1, depth)

lookup_imported_template_skipping_first(S, g, name, depth) ==
    lookup_imported_template_from(S, g, name, 2, depth)

lookup_imported_template(S, g, name, depth) ==
    lookup_imported_template_from(S, g, name, 1, depth)

lookup_template(S, g, name, depth) ==
    IF depth > RecursionLimit
    THEN [S |-> S, code |-> None, raised |-> "RecursionError"]
    ELSE
    LET S0 == S
        code == raw_get_template(S0, g, name)
    IN  IF code = NOT_FOUND_ST
        THEN [S |-> S0, code |-> None, raised |-> ""]
        ELSE LET r1 == IF code = None THEN load(S0, g, name)
                       ELSE [S |-> S0, code |-> code, raised |-> ""]
                 r2 == IF r1.code = None
                       THEN lookup_imported_template(r1.S, g, name, depth)
                       ELSE r1
             IN  IF r2.raised = "" /\ r2.code = None
                 THEN [r2 EXCEPT !.S = cache_miss(r2.S, g, name)]
                 ELSE r2


RECURSIVE RemoveFirst(_, _)
\* list.remove(x): drop the first occurrence of x
RemoveFirst(seq, x) ==
    IF seq = <<>> THEN <<>>
    ELSE IF Head(seq) = x THEN Tail(seq)
         ELSE <<Head(seq)>> \o RemoveFirst(Tail(seq), x)

RECURSIVE RemoveAll(_, _)
RemoveAll(seq, xs) ==
    IF xs = <<>> THEN seq ELSE RemoveAll(RemoveFirst(seq, Head(xs)), Tail(xs))

RECURSIVE unload(_, _, _)
RECURSIVE unload_imports_from(_, _, _, _)

unload_imports_from(S, g, i, depth) ==
    IF i > Len(S.imports[g]) THEN [S |-> S, raised |-> ""]
    ELSE LET r == unload(S, S.imports[g][i], depth + 1)
         IN  IF r.raised # "" THEN r
             ELSE unload_imports_from(r.S, g, i + 1, depth)

\* STGroup.unload, and the overrides of STGroupFile and STGroupString that
\* reset already_loaded after it
unload(S, g, depth) ==
    IF depth > RecursionLimit THEN [S |-> S, raised |-> "RecursionError"]
    ELSE
    LET S1 == [S EXCEPT !.templates[g] = [n \in Names |-> None],
                        !.dictionaries[g] = {},
                        !.unloaded = @ \cup {g},
                        !.parses[g] = 0]
        r  == unload_imports_from(S1, g, 1, depth)
    IN  IF r.raised # "" THEN r
        ELSE LET S2 == [r.S EXCEPT
                          !.imports[g] =
                              RemoveAll(@, r.S.imports_to_clear_on_unload[g]),
                          !.imports_to_clear_on_unload[g] = <<>>]
             IN  [S |-> IF GroupKind(g) = "STGroup" THEN S2
                        ELSE [S2 EXCEPT !.already_loaded[g] = FALSE],
                  raised |-> ""]

\* STGroup.define_region: an explicit @t.r() ::= "..." definition
define_region(S, g, enclosing_template_name, name, body) ==
    LET mangled == get_mangled_region_name(enclosing_template_name, name)
        r == lookup_template(S, g, mangled, 0)
        code == [RegionCode(enclosing_template_name, name, body, EXPLICIT)
                   EXCEPT !.subs = <<>>]
    IN  IF r.raised # "" THEN r
        ELSE IF r.code = None
             THEN [S |-> compile_time_error(r.S, "NO_SUCH_REGION"),
                   code |-> CompiledST, raised |-> ""]
             ELSE [S |-> define_implicitly_defined_templates(
                             raw_define_template(r.S, g, mangled, code), g, code),
                   code |-> code, raised |-> ""]

\* STGroupFile.is_defined / STGroupString.is_defined / STGroup.is_defined
is_defined(S, g, name) ==
    LET S1 == IF GroupKind(g) # "STGroup" /\ ~S.already_loaded[g]
              THEN load_group(S, g) ELSE S
    IN  lookup_template(S1, g, name, 0)

\* STGroupFile.is_dictionary / STGroupString.is_dictionary / STGroup.is_dictionary
is_dictionary(S, g, name) ==
    LET S1 == IF GroupKind(g) # "STGroup" /\ ~S.already_loaded[g]
              THEN load_group(S, g) ELSE S
    IN  [S |-> S1, result |-> name \in S1.dictionaries[g]]

---------------------------------------------------------------------------
(* The calls a client makes on a group *)

otherVars == <<threads, stVars, interpVars, toolVars>>

Commit(S, op, g, name, code, raised) ==
    /\ templates' = S.templates
    /\ dictionaries' = S.dictionaries
    /\ imports' = S.imports
    /\ imports_to_clear_on_unload' = S.imports_to_clear_on_unload
    /\ already_loaded' = S.already_loaded
    /\ parses' = S.parses
    /\ UNCHANGED otherVars
    /\ last' = [op |-> op, g |-> g, name |-> name, code |-> code,
                raised |-> raised, errs |-> S.errs, loads |-> S.loads,
                searches |-> S.searches, unloaded |-> S.unloaded,
                prev |-> IF name \in Names THEN templates[g][name] ELSE None,
                changed |-> S.templates # templates]

DefineTemplate(g, name, body, subs) ==
    LET S == define_template_helper(Cur, g, name, body, subs)
    IN  Commit(S, "define_template", g, name, compile(name, body, subs), "")

RawDefineTemplate(g, name, code) ==
    Commit(raw_define_template(Cur, g, name, code),
           "raw_define_template", g, name, code, "")

DefineRegion(g, enclosing, name, body) ==
    LET r == define_region(Cur, g, enclosing, name, body)
    IN  Commit(r.S, "define_region", g,
               get_mangled_region_name(enclosing, name), r.code, r.raised)

UndefineTemplate(g, name) ==
    Commit([Cur EXCEPT !.templates[g][name] = None],
           "undefine_template", g, name, None, "")

ImportEdges == Len(imports["g1"]) + Len(imports["gf"]) + Len(imports["gs"])

ImportTemplates(g, h, clear_on_unload) ==
    /\ Len(imports[g]) < MaxImports
    /\ ImportEdges < MaxImportEdges
    /\ Commit([Cur EXCEPT
                 !.imports[g] = Append(@, h),
                 !.imports_to_clear_on_unload[g] =
                     IF clear_on_unload THEN Append(@, h) ELSE @],
              "import_templates", g, "", None, "")

LookupTemplate(g, name) ==
    LET r == lookup_template(Cur, g, name, 0)
    IN  Commit(r.S, "lookup_template", g, name, r.code, r.raised)

IsDefined(g, name) ==
    LET r == is_defined(Cur, g, name)
    IN  Commit(r.S, "is_defined", g, name, r.code, r.raised)

IsDictionary(g, name) ==
    LET r == is_dictionary(Cur, g, name)
    IN  Commit(r.S, "is_dictionary", g, name,
               IF r.result THEN CompiledST ELSE None, "")

Unload(g) ==
    LET r == unload(Cur, g, 0)
    IN  Commit(r.S, "unload", g, "", None, r.raised)

NoCall == [op |-> "", g |-> "", name |-> "", code |-> None, raised |-> "",
           errs |-> <<>>, loads |-> 0, searches |-> 0, unloaded |-> {},
           prev |-> None, changed |-> FALSE]

GroupInit ==
    /\ templates = [g \in Groups |-> [n \in Names |-> None]]
    /\ dictionaries = [g \in Groups |-> {}]
    /\ imports = [g \in Groups |-> <<>>]
    /\ imports_to_clear_on_unload = [g \in Groups |-> <<>>]
    /\ already_loaded = [g \in Groups |-> FALSE]
    /\ parses = [g \in Groups |-> 0]
    /\ last = NoCall

Threads == 1..NumThreads

Idle == [pc |-> "idle", op |-> "", name |-> "", ret |-> "", i |-> 0,
         result |-> None]

ThreadInit == threads = [t \in Threads |-> Idle]

\* ST instances, the CompiledST objects they run, and the values given to add
STs == {"s1", "s2"}

Impls == {"c1", "c2"}

ArgNames == {"x", "y"}

\* ST.EMPTY_ATTR, the marker of a local that was never set
EMPTY_ATTR == "EMPTY_ATTR"

\* Python's None as an attribute value
NoneValue == "None"

Scalars == {"v1", "v2"}

\* a plain list built by the caller
CallerLists == {"L1"}

\* further lists a template argument can hold: an empty one, and one of
\* three elements with a None in the middle
ArgLists == {"L0", "L3"}

CallerList(L) == [managed |-> FALSE, allocated |-> TRUE,
                  elems |-> IF L = "L0" THEN <<>>
                            ELSE IF L = "L3" THEN <<"v1", "None", "v2">>
                            ELSE <<"v1", "v2">>]

\* the plain lists _map and _zip_map build for their results
ResultLists == <<"R1", "R2">>

\* the ST.AttributeList objects add can create: one per instance and name
AttributeLists == <<"A1", "A2", "A3", "A4">>

Range(f) == {f[i] : i \in DOMAIN f}

ListRefs == CallerLists \cup ArgLists \cup Range(AttributeLists)
              \cup Range(ResultLists)

\* CompiledST(): has_formal_args False, no formal arguments. None and the
\* empty OrderedDict are both <<>>: add and create_string_template test
\* formal_arguments for truth only, and add_arg creates the dict when None.
NewCompiledST == [has_formal_args |-> FALSE, formal_arguments |-> <<>>]

\* CompiledST.define_formal_args(args): the template declares its arguments
define_formal_args(code, args) ==
    [code EXCEPT !.has_formal_args = TRUE, !.formal_arguments = @ \o args]

\* the instances get_embedded_instance_of creates during a run
Embedded == {"e1", "e2"}

AllSTs == STs \cup Embedded

\* the CompiledST() of a blank template, the template "<b()><x>", and the
\* template d(x="v2", y) ::= "<x><y>"
BlankImpl == "blank"

CallerImpl == "c3"

TwoArgImpl == "c4"

\* the anonymous templates {it | <it>} and {x | <x>}: the code generator
\* adds i and i0 to the arguments of an anonymous template
ItImpl == "c5"

AnonImpl == "c6"

\* a template without arguments whose instructions are the code generator's:
\* any sequence of INDENT, WRITE, WRITE_OPT, DEDENT and NEWLINE
LineImpl == "c7"

AllImpls == Impls \cup {CallerImpl, TwoArgImpl, ItImpl, AnonImpl, BlankImpl,
                        LineImpl}

\* the arguments the template of a CompiledST declares: c1 is compiled from
\* a bare template string (no declaration), c2 from a definition t(x="v2")
DeclaresArgs(c) == c \in {"c2", TwoArgImpl, ItImpl, AnonImpl}

\* FormalArgument.default_value_token of an argument, None if it has none
default_value_token(c, name) ==
    IF c \in {"c2", TwoArgImpl} /\ name = "x" THEN "v2" ELSE NoneValue

DeclaredArgs(c) ==
    IF c = "c2" THEN <<"x">>
    ELSE IF c = TwoArgImpl THEN <<"x", "y">>
    ELSE IF c = ItImpl THEN <<"it", "i", "i0">>
    ELSE IF c = AnonImpl THEN <<"x", "i", "i0">>
    ELSE <<>>

\* Compiler._compile: impl.define_formal_args(args) when args are declared
define_formal_args_if_declared(code, c) ==
    IF DeclaresArgs(c) THEN define_formal_args(code, DeclaredArgs(c))
    ELSE code

\* ST(): impl unset, locals None (written <<>>: locals is never an empty list)
NewST == [created |-> FALSE, impl |-> "", locals |-> <<>>]

NoSTCall == [op |-> "", s |-> "", raised |-> ""]

STInit ==
    /\ impls = [c \in AllImpls |->
                  define_formal_args_if_declared(NewCompiledST, c)]
    /\ sts = [s \in AllSTs |-> NewST]
    /\ heap = [r \in ListRefs |->
                 IF r \in CallerLists \cup ArgLists THEN CallerList(r)
                 ELSE [managed |-> TRUE, allocated |-> FALSE, elems |-> <<>>]]
    /\ added = [s \in STs |-> [n \in ArgNames |->
                  [values |-> <<>>, flat |-> <<>>]]]
    /\ stlast = NoSTCall

\* the characters of the strings the runs write
Chars(str) ==
    CASE str = "" -> <<>>
      [] str = "v1" -> <<"v", "1">>
      [] str = "v2" -> <<"v", "2">>
      [] str = "a\nb" -> <<"a", "\n", "b">>
      [] str = "  " -> <<" ", " ">>
      [] str = "\n" -> <<"\n">>
      [] str = "\r\n" -> <<"\r", "\n">>
      [] OTHER -> <<str>>

RECURSIVE Concat(_)
\* the concatenation of a sequence of sequences
Concat(seqs) ==
    IF seqs = <<>> THEN <<>> ELSE Head(seqs) \o Concat(Tail(seqs))

\* STWriter.NO_WRAP
NO_WRAP == -1

\* AutoIndentWriter(out): the indent stack starts as [None], the newline is
\* "\n"; text is what the sink out has received
AutoIndentWriter ==
    [text |-> <<>>, indents |-> <<NoneValue>>, anchors |-> <<>>,
     newline |-> "\n", at_start_of_line |-> TRUE, char_position |-> 0,
     char_index |-> 0, line_width |-> NO_WRAP]

\* AutoIndentWriter.push_indentation(indent)
push_indentation(w, indent) == [w EXCEPT !.indents = Append(@, indent)]

\* AutoIndentWriter.pop_indentation(): list.pop(), IndexError on an empty list
pop_indentation(w) ==
    IF w.indents = <<>> THEN [w |-> w, raised |-> "IndexError"]
    ELSE [w |-> [w EXCEPT !.indents = SubSeq(@, 1, Len(@) - 1)],
          raised |-> ""]

\* _indent() padding by the distance between the anchor and the indent
\* width, whichever of the two is larger
indent_padding_either_way(w) ==
    LET inds == Concat([i \in DOMAIN w.indents |->
                          IF w.indents[i] = NoneValue THEN <<>>
                          ELSE Chars(w.indents[i])])
        indent_width == Len(inds)
        remainder ==
            IF w.anchors = <<>> THEN 0
            ELSE IF w.anchors[Len(w.anchors)] > indent_width
            THEN w.anchors[Len(w.anchors)] - indent_width
            ELSE indent_width - w.anchors[Len(w.anchors)]
        n == indent_width + remainder
    IN  [w EXCEPT !.text = @ \o inds \o [i \in 1..remainder |-> " "],
                  !.char_position = @ + n,
                  !.char_index = @ + n]

\* _indent() that leaves the padding out of char_index
indent_padding_uncounted(w) ==
    LET inds == Concat([i \in DOMAIN w.indents |->
                          IF w.indents[i] = NoneValue THEN <<>>
                          ELSE Chars(w.indents[i])])
        indent_width == Len(inds)
        remainder ==
            IF w.anchors # <<>> /\ w.anchors[Len(w.anchors)] > indent_width
            THEN w.anchors[Len(w.anchors)] - indent_width ELSE 0
        n == indent_width + remainder
    IN  [w EXCEPT !.text = @ \o inds \o [i \in 1..remainder |-> " "],
                  !.char_position = @ + n,
                  !.char_index = @ + indent_width]

\* AutoIndentWriter._indent(): every indent of the stack that is not None,
\* then spaces up to the current anchor
indent(w) ==
    LET inds == Concat([i \in DOMAIN w.indents |->
                          IF w.indents[i] = NoneValue THEN <<>>
                          ELSE Chars(w.indents[i])])
        indent_width == Len(inds)
        remainder ==
            IF w.anchors # <<>> /\ w.anchors[Len(w.anchors)] > indent_width
            THEN w.anchors[Len(w.anchors)] - indent_width ELSE 0
        n == indent_width + remainder
    IN  [w EXCEPT !.text = @ \o inds \o [i \in 1..remainder |-> " "],
                  !.char_position = @ + n,
                  !.char_index = @ + n]

RECURSIVE write_raw(_, _)
\* AutoIndentWriter._write_raw(text), newline "\n"
write_raw(w, text) ==
    IF text = <<>> THEN w
    ELSE LET c == Head(text)
             w1 == IF c = "\r" THEN w
                   ELSE IF c = "\n"
                   THEN [w EXCEPT !.at_start_of_line = TRUE,
                                  !.char_position = -Len(Chars(w.newline)),
                                  !.text = @ \o Chars(w.newline),
                                  !.char_index = @ + Len(Chars(w.newline))]
                   ELSE LET w0 == IF w.at_start_of_line
                                  THEN [indent(w) EXCEPT
                                           !.at_start_of_line = FALSE]
                                  ELSE w
                        IN  [w0 EXCEPT !.text = Append(@, c),
                                       !.char_position = @ + 1,
                                       !.char_index = @ + 1]
         IN  write_raw(w1, Tail(text))

RECURSIVE write_wrap_from(_, _)
write_wrap_from(w, wrap) ==
    IF wrap = <<>> THEN w
    ELSE LET c == Head(wrap)
             w1 == IF c = "\r" THEN w
                   ELSE IF c = "\n"
                   THEN indent([w EXCEPT
                                   !.text = @ \o Chars(w.newline),
                                   !.char_position = 0,
                                   !.char_index = @ + Len(Chars(w.newline))])
                   ELSE write_raw(w, <<c>>)
         IN  write_wrap_from(w1, Tail(wrap))

\* AutoIndentWriter.write_wrap(wrap)
write_wrap(w, wrap) ==
    IF /\ w.line_width # NO_WRAP
       /\ wrap # NoneValue
       /\ ~w.at_start_of_line
       /\ w.char_position >= w.line_width
    THEN write_wrap_from(w, Chars(wrap))
    ELSE w

\* AutoIndentWriter.write(text, wrap): "if wrap:" is false for None and ""
write(w, text, wrap) ==
    write_raw(IF wrap # NoneValue /\ wrap # "" THEN write_wrap(w, wrap)
              ELSE w,
              Chars(text))

\* AutoIndentWriter.write_separator(text)
write_separator(w, text) == write(w, text, NoneValue)

\* Interpreter.DEFAULT_OPERAND_STACK_SIZE
DEFAULT_OPERAND_STACK_SIZE == 100

NoInstr == [opcode |-> "", name |-> "", o |-> NoneValue, raised |-> ""]

\* Interpreter(group): operands = [None] * DEFAULT_OPERAND_STACK_SIZE, sp = -1
NewOperands == [i \in 0..(DEFAULT_OPERAND_STACK_SIZE - 1) |-> NoneValue]

InterpInit ==
    /\ operands = NewOperands
    /\ sp = -1
    /\ scope = ""
    /\ ip = 0
    /\ out = AutoIndentWriter
    /\ listener = <<>>
    /\ execs = 0
    /\ ilast = NoInstr
    /\ prev_opcode = 0
    /\ frames = <<>>
    /\ calls = <<>>

\* no lexer yet; TypeRegistry(): an empty _backing_store and _cache
NoLexer ==
    [input |-> <<>>, index |-> 0, c |-> "", subtemplate_depth |-> 0,
     opened |-> 0, scanning_inside_expr |-> FALSE,
     scanningInsideExpr |-> FALSE, returned |-> <<>>, raised |-> ""]

\* CompiledST(): formal_arguments None (written <<>>), no call made yet
NewCompiled ==
    [has_formal_args |-> FALSE, formal_arguments |-> <<>>,
     op |-> "", name |-> "", raised |-> ""]

\* no STGroupDir yet
NoGroupDir ==
    [root |-> "", files |-> {}, templates |-> [n \in {} |-> ""],
     errs |-> <<>>, loads |-> <<>>]

NoRegistryCall == [op |-> "", key |-> "", result |-> "", raised |-> ""]

ToolInit ==
    /\ lexer = NoLexer
    /\ registry = [keys |-> <<>>,
                   values |-> [k \in {} |-> ""],
                   cache |-> [k \in {} |-> ""],
                   last_exception |-> ""]
    /\ tlast = NoRegistryCall
    /\ group_dir = NoGroupDir
    /\ compiled = NewCompiled

Init == GroupInit /\ ThreadInit /\ STInit /\ InterpInit /\ ToolInit

\* Name resolution: definitions, imports, lookups and the calls that drop
\* entries, on the name "/a" (the file of gf defines it, the text of gs does
\* not)
NextLookup ==
    \/ \E g \in Groups : DefineTemplate(g, "/a", "t1", <<>>)
    \/ \E g \in Groups : UndefineTemplate(g, "/a")
    \/ \E g, h \in Groups : ImportTemplates(g, h, FALSE)
    \/ \E g \in Groups : LookupTemplate(g, "/a")
    \/ \E g \in Groups : Unload(g)

SpecLookup == Init /\ [][NextLookup]_vars


---------------------------------------------------------------------------
(* Name resolution *)

IsTemplate(code) == code # None /\ code # NOT_FOUND_ST

RECURSIVE Resolution(_, _, _)
RECURSIVE FirstResolvingImport(_, _, _, _)

\* What the group h stands for under the name n in the current state: its
\* own definition, nothing where it holds the sentinel, and otherwise the
\* resolution of the first import that has one.
Resolution(h, n, fuel) ==
    IF fuel = 0 THEN None
    ELSE IF IsTemplate(templates[h][n]) THEN templates[h][n]
    ELSE IF templates[h][n] = NOT_FOUND_ST THEN None
    ELSE FirstResolvingImport(h, n, 1, fuel)

FirstResolvingImport(g, n, i, fuel) ==
    IF i > Len(imports[g]) THEN None
    ELSE LET c == Resolution(imports[g][i], n, fuel - 1)
         IN  IF c # None THEN c ELSE FirstResolvingImport(g, n, i + 1, fuel)

Returned(op) == last.op = op /\ last.raised = ""

C2_Cached ==
    Returned("lookup_template") /\ last.code = None =>
        templates[last.g][last.name] = NOT_FOUND_ST

C2_Hit ==
    last.op = "lookup_template" /\ last.prev = NOT_FOUND_ST =>
        /\ last.raised = "" /\ last.code = None
        /\ last.loads = 0 /\ last.searches = 0

\* C2 as stated: a failed lookup leaves the sentinel, a lookup that finds the
\* sentinel returns not found without a load and without a search of the
\* imports, and only unload() takes the sentinel away.
C2_AsStated ==
    /\ [](C2_Cached /\ C2_Hit)
    /\ [][\A g \in Groups, n \in Names :
            templates[g][n] = NOT_FOUND_ST /\ g \notin last'.unloaded
                => templates'[g][n] = NOT_FOUND_ST]_vars

\* C2 (amended): a failed lookup leaves the sentinel, a lookup that finds the
\* sentinel returns not found without a load and without a search of the
\* imports, and the sentinel stays until unload() or undefine_template(n) is
\* called on the group.
C2_NegativeCache ==
    /\ [](C2_Cached /\ C2_Hit)
    /\ [][\A g \in Groups, n \in Names :
            /\ templates[g][n] = NOT_FOUND_ST
            /\ g \notin last'.unloaded
            /\ ~(last'.op = "undefine_template" /\ last'.g = g /\ last'.name = n)
            => templates'[g][n] = NOT_FOUND_ST]_vars

\* a lookup answered from the sentinel although an import now has the name
C2_Witness ==
    /\ last.op = "lookup_template" /\ last.prev = NOT_FOUND_ST
    /\ last.code = None
    /\ \E i \in 1..Len(imports[last.g]) :
           IsTemplate(templates[imports[last.g][i]][last.name])


\* Lazy loading by one caller at a time: a file group and a string group,
\* looked up, asked for templates and dictionaries, and unloaded
LazyGroups == {g \in Groups : GroupKind(g) # "STGroup"}

NextLoad ==
    \/ \E g \in LazyGroups, n \in TemplateNames : DefineTemplate(g, n, "u", <<>>)
    \/ \E g \in LazyGroups, n \in TemplateNames : LookupTemplate(g, n)
    \/ \E g \in LazyGroups, n \in TemplateNames : IsDefined(g, n)
    \/ \E g \in LazyGroups, n \in DictNames : IsDictionary(g, n)
    \/ \E g \in LazyGroups : Unload(g)

SpecLoad == Init /\ [][NextLoad]_vars

LoadingCalls == {"lookup_template", "is_defined", "is_dictionary"}

\* C4: the source of a file group or string group is parsed at most once
\* between two unload() calls, it is not parsed by the construction of the
\* group, and only a lookup_template, is_defined or is_dictionary call
\* parses it.
C4_ParsedOnce ==
    /\ [](\A g \in LazyGroups :
            /\ parses[g] <= 1
            /\ (last.op = "" => parses[g] = 0 /\ ~already_loaded[g]))
    /\ [][\A g \in LazyGroups :
            parses'[g] > parses[g] => last'.op \in LoadingCalls]_vars

\* a call on a group that an earlier call has loaded, and one parse so far
C4_Witness ==
    /\ last.op \in LoadingCalls
    /\ last.g \in LazyGroups
    /\ \E i \in 1..Len(GroupSource(last.g)) :
           /\ GroupSource(last.g)[i].name = last.name
           /\ GroupSource(last.g)[i].body = last.prev.body
    /\ parses[last.g] = 1

---------------------------------------------------------------------------
(* Concurrent first use of the file group gf.  A thread switch can fall    *)
(* between any two reads or writes of the group's fields, so each step     *)
(* below is one such access.                                               *)

SharedGroup == "gf"

SetThread(t, f) ==
    /\ threads' = [threads EXCEPT ![t] = f]
    /\ UNCHANGED <<stVars, interpVars, toolVars>>

GroupUnchanged ==
    UNCHANGED <<templates, dictionaries, imports, imports_to_clear_on_unload,
                already_loaded, parses, last>>

\* a thread calls lookup_template(name) or is_defined(name)
ThreadCall(t, op, name) ==
    /\ threads[t].pc = "idle"
    /\ SetThread(t, [Idle EXCEPT !.op = op, !.name = name,
                        !.pc = IF op = "is_defined" THEN "is_defined"
                               ELSE "lookup_template"])
    /\ GroupUnchanged

\* STGroupFile.is_defined: if not self.already_loaded: self.load()
ThreadIsDefined(t) ==
    /\ threads[t].pc = "is_defined"
    /\ SetThread(t, IF ~already_loaded[SharedGroup]
                    THEN [threads[t] EXCEPT !.pc = "load", !.ret = "lookup_template"]
                    ELSE [threads[t] EXCEPT !.pc = "lookup_template"])
    /\ GroupUnchanged

\* STGroup.lookup_template: code = self.raw_get_template(name) and the two
\* returns that need no load
ThreadRawGet(t) ==
    /\ threads[t].pc = "lookup_template"
    /\ LET code == raw_get_template(Cur, SharedGroup, threads[t].name)
       IN  SetThread(t, IF code = NOT_FOUND_ST
                        THEN [threads[t] EXCEPT !.pc = "done", !.result = None]
                        ELSE IF code # None
                        THEN [threads[t] EXCEPT !.pc = "done", !.result = code]
                        ELSE [threads[t] EXCEPT !.pc = "load_name"])
    /\ GroupUnchanged

\* STGroupFile.load(name): if not self.already_loaded: self.load()
ThreadLoadName(t) ==
    /\ threads[t].pc = "load_name"
    /\ SetThread(t, IF ~already_loaded[SharedGroup]
                    THEN [threads[t] EXCEPT !.pc = "load", !.ret = "loaded"]
                    ELSE [threads[t] EXCEPT !.pc = "loaded"])
    /\ GroupUnchanged

\* STGroupFile.load(): if self.already_loaded: return
ThreadLoadCheck(t) ==
    /\ threads[t].pc = "load"
    /\ SetThread(t, IF already_loaded[SharedGroup]
                    THEN [threads[t] EXCEPT !.pc = threads[t].ret]
                    ELSE [threads[t] EXCEPT !.pc = "set_loaded"])
    /\ GroupUnchanged

\* STGroupFile.load(): self.already_loaded = True
ThreadSetLoaded(t) ==
    /\ threads[t].pc = "set_loaded"
    /\ already_loaded' = [already_loaded EXCEPT ![SharedGroup] = TRUE]
    /\ parses' = [parses EXCEPT ![SharedGroup] = @ + 1]
    /\ SetThread(t, [threads[t] EXCEPT !.pc = "parse", !.i = 1])
    /\ UNCHANGED <<templates, dictionaries, imports,
                   imports_to_clear_on_unload, last>>

\* STGroup.load_group_file: the parser installs the next definition of the file
ThreadParse(t) ==
    /\ threads[t].pc = "parse"
    /\ LET src == GroupSource(SharedGroup)
           i == threads[t].i
       IN  IF i > Len(src)
           THEN /\ SetThread(t, [threads[t] EXCEPT !.pc = threads[t].ret])
                /\ GroupUnchanged
           ELSE LET S == GroupParser_group(Cur, SharedGroup, <<src[i]>>, 1)
                IN  /\ templates' = S.templates
                    /\ dictionaries' = S.dictionaries
                    /\ last' = [NoCall EXCEPT !.op = "load", !.g = SharedGroup,
                                              !.name = src[i].name,
                                              !.errs = S.errs]
                    /\ SetThread(t, [threads[t] EXCEPT !.i = i + 1])
                    /\ UNCHANGED <<imports, imports_to_clear_on_unload,
                                   already_loaded, parses>>

\* STGroupFile.load(name): return self.raw_get_template(name), and in
\* lookup_template the return of a template that the load produced
ThreadLoaded(t) ==
    /\ threads[t].pc = "loaded"
    /\ LET code == raw_get_template(Cur, SharedGroup, threads[t].name)
       IN  SetThread(t, IF code # None
                        THEN [threads[t] EXCEPT !.pc = "done", !.result = code]
                        ELSE [threads[t] EXCEPT !.pc = "lookup_imported_template"])
    /\ GroupUnchanged

\* STGroup.lookup_template: the search of the imports (gf has none) and
\* self.templates[name] = STGroup.NOT_FOUND_ST
ThreadCacheMiss(t) ==
    /\ threads[t].pc = "lookup_imported_template"
    /\ imports[SharedGroup] = <<>>
    /\ templates' = cache_miss(Cur, SharedGroup, threads[t].name).templates
    /\ SetThread(t, [threads[t] EXCEPT !.pc = "done", !.result = None])
    /\ UNCHANGED <<dictionaries, imports, imports_to_clear_on_unload,
                   already_loaded, parses, last>>

SourceNames(g) ==
    {GroupSource(g)[i].name : i \in {j \in 1..Len(GroupSource(g)) :
                                        GroupSource(g)[j].kind = "template"}}

NextThreads ==
    \/ \E t \in Threads, n \in SourceNames(SharedGroup) :
           ThreadCall(t, "lookup_template", n)
    \/ \E t \in Threads, n \in SourceNames(SharedGroup) :
           ThreadCall(t, "is_defined", n)
    \/ \E t \in Threads : ThreadIsDefined(t)
    \/ \E t \in Threads : ThreadRawGet(t)
    \/ \E t \in Threads : ThreadLoadName(t)
    \/ \E t \in Threads : ThreadLoadCheck(t)
    \/ \E t \in Threads : ThreadSetLoaded(t)
    \/ \E t \in Threads : ThreadParse(t)
    \/ \E t \in Threads : ThreadLoaded(t)
    \/ \E t \in Threads : ThreadCacheMiss(t)

SpecThreads == Init /\ [][NextThreads]_vars

\* C3 as stated: with concurrent lookups of names that the file defines, the
\* file is parsed by one thread only, every finished lookup has returned the
\* defined template, and no not-found sentinel is cached for such a name.
C3_AsStated ==
    /\ parses[SharedGroup] <= 1
    /\ \A t \in Threads :
           threads[t].pc = "done" => IsTemplate(threads[t].result)
    /\ \A n \in SourceNames(SharedGroup) :
           templates[SharedGroup][n] # NOT_FOUND_ST


---------------------------------------------------------------------------
(* Definition and redefinition of templates and regions in the group g1 *)

\* the regions a body of "/a" can define implicitly: none, <@r()>, <@r>..<@end>
SubsChoices(b) ==
    { <<>>,
      <<RegionCode("/a", "r", "", IMPLICIT)>>,
      <<RegionCode("/a", "r", b, EMBEDDED)>> }

RawCodes(name) ==
    IF name = RegionName
    THEN {RegionCode("/a", "r", b, rt) :
              b \in Bodies, rt \in {IMPLICIT, EMBEDDED, EXPLICIT}}
    ELSE {compile(name, b, <<>>) : b \in Bodies}

NextDefine ==
    \/ \E b \in Bodies : \E subs \in SubsChoices(b) :
           DefineTemplate("g1", "/a", b, subs)
    \/ \E n \in {"/a", RegionName} : \E code \in RawCodes(n) :
           RawDefineTemplate("g1", n, code)
    \/ \E b \in Bodies : DefineRegion("g1", "/a", "r", b)
    \/ \E n \in {"/a", RegionName} : UndefineTemplate("g1", n)
    \/ \E n \in {"/a", RegionName} : LookupTemplate("g1", n)

SpecDefine == Init /\ [][NextDefine]_vars

RegionRejections == {"REGION_REDEFINITION", "EMBEDDED_REGION_REDEFINITION"}

---------------------------------------------------------------------------
\* ST instances: create_string_template and ST.add

\* bound on the calls of add in one run
MaxAdds == 4

\* the objects an ST call works on, threaded through the operators below
STCur == [impls |-> impls, sts |-> sts, heap |-> heap, raised |-> ""]

Raise(T, exception) == [T EXCEPT !.raised = exception]

\* FormalArgument.index of a name: its position in the OrderedDict, from 0
IndexOf(formal_arguments, name) ==
    (CHOOSE i \in DOMAIN formal_arguments : formal_arguments[i] = name) - 1

\* [ST.EMPTY_ATTR] * n: a list of n unset locals (empty for n <= 0)
EmptyLocals(n) == [i \in 1..n |-> EMPTY_ATTR]

\* CompiledST.add_arg(a): a.index = len(formal_arguments), then insert
add_arg(T, c, name) ==
    IF name \in Range(T.impls[c].formal_arguments)
    THEN Raise(T, "ValueError")
    ELSE [T EXCEPT !.impls[c].formal_arguments = Append(@, name)]

\* STGroup.create_string_template(impl): the instance refers to impl itself
create_string_template(T, s, c) ==
    [T EXCEPT !.sts[s] =
        [created |-> TRUE, impl |-> c,
         locals |-> EmptyLocals(Len(T.impls[c].formal_arguments))]]

\* ST.AttributeList(): a fresh list object
NewAttributeList(H) ==
    AttributeLists[CHOOSE i \in DOMAIN AttributeLists :
        /\ ~H[AttributeLists[i]].allocated
        /\ \A j \in 1..(i - 1) : H[AttributeLists[j]].allocated]

IsList(v) == v \in ListRefs

\* the mutant of _convert_to_attribute_list: a list the caller injected is
\* taken as the attribute's own list
convert_to_attribute_list_in_place(H, curvalue) ==
    IF IsList(curvalue)
    THEN [heap |-> H, multi |-> curvalue]
    ELSE LET multi == NewAttributeList(H)
         IN  [heap |-> [H EXCEPT ![multi].allocated = TRUE,
                                 ![multi].elems = <<curvalue>>],
              multi |-> multi]

\* ST._convert_to_attribute_list(curvalue)
convert_to_attribute_list(H, curvalue) ==
    IF IsList(curvalue) /\ H[curvalue].managed
    THEN [heap |-> H, multi |-> curvalue]
    ELSE LET multi == NewAttributeList(H)
             elems == IF IsList(curvalue) THEN H[curvalue].elems
                      ELSE <<curvalue>>
         IN  [heap |-> [H EXCEPT ![multi].allocated = TRUE,
                                 ![multi].elems = elems],
              multi |-> multi]

\* ST.add from "if not self.locals" on: store the value in the local of arg
add_value(T, s, name, value) ==
    LET st == T.sts[s]
        index == IndexOf(T.impls[st.impl].formal_arguments, name)
    IN  IF st.locals = <<>> THEN Raise(T, "ValueError")
        ELSE IF index >= Len(st.locals) THEN Raise(T, "IndexError")
        ELSE LET curvalue == st.locals[index + 1]
             IN  IF curvalue = EMPTY_ATTR
                 THEN [T EXCEPT !.sts[s].locals[index + 1] = value]
                 ELSE LET r == convert_to_attribute_list(T.heap, curvalue)
                          incoming == IF IsList(value)
                                      THEN r.heap[value].elems
                                      ELSE <<value>>
                      IN  [T EXCEPT
                             !.sts[s].locals[index + 1] = r.multi,
                             !.heap = [r.heap EXCEPT ![r.multi].elems =
                                           @ \o incoming]]

\* ST.add(name, value)
add(T, s, name, value) ==
    LET c == T.sts[s].impl
        code == T.impls[c]
        defined == name \in Range(code.formal_arguments)
    IN  IF code.has_formal_args
        THEN IF ~defined THEN Raise(T, "ValueError")
             ELSE add_value(T, s, name, value)
        ELSE IF defined THEN add_value(T, s, name, value)
             ELSE LET T1 == add_arg(T, c, name)
                      n == Len(T1.impls[c].formal_arguments)
                      T2 == [T1 EXCEPT !.sts[s].locals =
                               IF @ = <<>> THEN <<EMPTY_ATTR>>
                               ELSE @ \o EmptyLocals(n - Len(@))]
                  IN  add_value(T2, s, name, value)

\* ST.get_attribute(name): the value, or the exception of locals[index]
get_attribute(T, s, name) ==
    LET st == T.sts[s]
        formal_arguments == T.impls[st.impl].formal_arguments
        index == IndexOf(formal_arguments, name)
    IN  IF name \in Range(formal_arguments)
        THEN IF st.locals = <<>> THEN [o |-> NoneValue, raised |-> ""]
             ELSE IF index >= Len(st.locals)
             THEN [o |-> NoneValue, raised |-> "IndexError"]
             ELSE [o |-> IF st.locals[index + 1] = EMPTY_ATTR THEN NoneValue
                         ELSE st.locals[index + 1],
                   raised |-> ""]
        ELSE [o |-> NoneValue, raised |-> ""]

\* the lists a caller holds: its own, and those get_attribute hands out
HeldLists ==
    CallerLists \cup
    {v \in ListRefs : \E s \in STs, n \in ArgNames :
        /\ sts[s].created
        /\ get_attribute(STCur, s, n).raised = ""
        /\ get_attribute(STCur, s, n).o = v}

Values == Scalars \cup HeldLists

\* what a value contributes to a multi-valued attribute: a list its elements
Incoming(H, value) == IF IsList(value) THEN H[value].elems ELSE <<value>>

TotalAdds ==
    LET RECURSIVE Sum(_)
        Sum(P) == IF P = {} THEN 0
                  ELSE LET p == CHOOSE q \in P : TRUE
                       IN  Len(added[p[1]][p[2]].values) + Sum(P \ {p})
    IN  Sum(STs \X ArgNames)

STCommit(T, op, s, name, value) ==
    /\ impls' = T.impls
    /\ sts' = T.sts
    /\ heap' = T.heap
    /\ added' = IF op = "add" /\ T.raised = ""
                THEN [added EXCEPT ![s][name] =
                        [values |-> Append(@.values, value),
                         flat |-> @.flat \o Incoming(heap, value)]]
                ELSE added
    /\ stlast' = [op |-> op, s |-> s, raised |-> T.raised]
    /\ UNCHANGED <<groupVars, threads, interpVars, toolVars>>

CreateStringTemplate(s, c) ==
    /\ ~sts[s].created
    /\ STCommit(create_string_template(STCur, s, c),
                "create_string_template", s, "", c)

Add(s, name, value) ==
    /\ sts[s].created
    /\ TotalAdds < MaxAdds
    /\ STCommit(add(STCur, s, name, value), "add", s, name, value)

NextST ==
    \/ \E s \in STs, c \in Impls : CreateStringTemplate(s, c)
    \/ \E s \in STs, n \in ArgNames, v \in Values : Add(s, n, v)

SpecST == Init /\ [][NextST]_vars

\* C7 (as stated): an add on one instance leaves the formal arguments and the
\* locals of every other instance as they were
C7_AsStated ==
    [][\A t \in STs :
          (sts[t].created /\ stlast'.op = "add" /\ stlast'.s # t)
          => /\ sts'[t] = sts[t]
             /\ impls'[sts'[t].impl].formal_arguments
                  = impls[sts[t].impl].formal_arguments]_vars

\* the lists that were passed to add as a value
Injected ==
    {v \in ListRefs : \E s \in STs, n \in ArgNames :
        v \in Range(added[s][n].values)}

\* the attribute holds what its adds gave it: the bare value after one add,
\* an ST.AttributeList of the values in insertion order after more
AttributeHolds(s, n) ==
    LET h == added[s][n]
        o == sts[s].locals[
                 IndexOf(impls[sts[s].impl].formal_arguments, n) + 1]
    IN  /\ Len(h.values) = 1 => o = h.values[1]
        /\ Len(h.values) >= 2 =>
             /\ IsList(o)
             /\ heap[o].managed
             /\ heap[o].elems = h.flat

---------------------------------------------------------------------------
\* The interpreter: exec on an instance scope, LOAD_ATTR, LOAD_LOCAL, WRITE

\* bound on the exec calls of one run
MaxExecs == 2

\* the attributes injected before the runs of the interpreter
MaxRunAdds == 2

\* Bytecode.OPND_SIZE_IN_BYTES
OPND_SIZE_IN_BYTES == 2

\* Bytecode.INSTR_LOAD_ATTR
INSTR_LOAD_ATTR == 2

\* Bytecode.INSTR_LOAD_LOCAL
INSTR_LOAD_LOCAL == 3

\* Bytecode.INSTR_NEW
INSTR_NEW == 8

\* Bytecode.INSTR_WRITE
INSTR_WRITE == 13

\* Bytecode.INSTR_WRITE_OPT
INSTR_WRITE_OPT == 14

\* Bytecode.INSTR_INDENT
INSTR_INDENT == 39

\* Bytecode.INSTR_DEDENT
INSTR_DEDENT == 40

\* Bytecode.INSTR_NEWLINE
INSTR_NEWLINE == 41

\* the width of a byte, as in b2 << 8
ByteBits == 8

ByteRange == 2 ^ ByteBits

\* the instance scopes of a run: sc1 runs s1, sc2 runs s2 as invoked from sc1
Scopes == {"sc1", "sc2"}

\* InstanceScope(parent, st)
InstanceScope(sc) ==
    IF sc = "sc1" THEN [parent |-> "", st |-> "s1"]
    ELSE [parent |-> "sc1", st |-> "s2"]

\* scope.st: the scope _write_template makes for an embedded instance is
\* named after the instance
ScopeST(sc) == IF sc \in Embedded THEN sc ELSE InstanceScope(sc).st

\* the attribute references of the template text "<x><y>", in order
TemplateRefs == <<"x", "y">>

\* StringTable.add(s): the index of s (from 0), s appended if new
StringTable_add(strings, str) ==
    IF str \in Range(strings)
    THEN [strings |-> strings, index |-> IndexOf(strings, str)]
    ELSE [strings |-> Append(strings, str), index |-> Len(strings)]

\* CompilationState.write_short(memory, index, value): high byte, low byte
write_short(value) ==
    <<(value \div ByteRange) % ByteRange, value % ByteRange>>

\* CompilationState.emit(op_ast, opcode)
emit(C, opcode) == [C EXCEPT !.instrs = Append(@, opcode)]

\* CompilationState.emit1(op_ast, opcode, arg) with a string or an int operand
emit1(C, opcode, arg, is_string) ==
    LET t == StringTable_add(C.strings, arg)
        C1 == emit(C, opcode)
    IN  IF is_string
        THEN [C1 EXCEPT !.strings = t.strings,
                        !.instrs = @ \o write_short(t.index)]
        ELSE [C1 EXCEPT !.instrs = @ \o write_short(arg)]

\* CompilationState.emit2(op_ast, opcode, arg, arg2) with a string first operand
emit2(C, opcode, arg, arg2) ==
    LET t == StringTable_add(C.strings, arg)
    IN  [emit(C, opcode) EXCEPT
            !.strings = t.strings,
            !.instrs = @ \o write_short(t.index) \o write_short(arg2)]

\* CompilationState.ref_attr(template_token, id_node)
ref_attr(C, formal_arguments, name) ==
    IF name \in Range(formal_arguments)
    THEN emit1(C, INSTR_LOAD_LOCAL, IndexOf(formal_arguments, name), FALSE)
    ELSE emit1(C, INSTR_LOAD_ATTR, name, TRUE)

\* the code of "<x><y>": each reference is loaded and written
RECURSIVE CompileRefs(_, _, _, _)
CompileRefs(C, formal_arguments, refs, i) ==
    IF i > Len(refs) THEN C
    ELSE CompileRefs(emit(ref_attr(C, formal_arguments, refs[i]), INSTR_WRITE),
                     formal_arguments, refs, i + 1)

\* CompiledST.instrs and CompiledST.strings of impl c: "<x><y>" for c1 and
\* c2, "<b()><x>" for c3, nothing for a blank template
Code(c) ==
    LET C0 == [instrs |-> <<>>, strings |-> <<>>]
    IN  IF c = BlankImpl THEN C0
        ELSE IF c = CallerImpl
        THEN CompileRefs(emit(emit2(C0, INSTR_NEW, "b", 0), INSTR_WRITE),
                         <<>>, <<"x">>, 1)
        ELSE CompileRefs(C0, DeclaredArgs(c), TemplateRefs, 1)

\* the CompiledST object of a group template: body t1 stands for the
\* definition b(x="v2") ::= "<x><y>", body t2 for b(x="v2", y) ::= "<x><y>"
ImplOf(code) == IF code.body = "t2" THEN TwoArgImpl ELSE "c2"

\* Interpreter._get_short(memory, addr): memory[addr] | (memory[addr+1] << 8)
get_short(memory, addr) ==
    memory[addr + 1] + memory[addr + 2] * ByteRange

\* Python's list[i]: the slot a valid index names, -1 for an IndexError
PyIndex(len, i) ==
    IF 0 <= i /\ i < len THEN i
    ELSE IF i < 0 /\ i + len >= 0 THEN i + len
    ELSE -1

\* Interpreter._get_attribute(scope, name)
interp_get_attribute(T, sc, name) ==
    LET s == ScopeST(sc)
        st == T.sts[s]
        formal_arguments == T.impls[st.impl].formal_arguments
    IN  IF st.locals # <<>> /\ name \in Range(formal_arguments)
        THEN IF IndexOf(formal_arguments, name) >= Len(st.locals)
             THEN [o |-> NoneValue, raised |-> "IndexError"]
             ELSE [o |-> st.locals[IndexOf(formal_arguments, name) + 1],
                   raised |-> ""]
        ELSE get_attribute(T, s, name)

\* the group whose templates the instances of a run come from
RunGroup == "g1"

\* the objects an instruction works on: the interpreter, the writer, the
\* listener, the instances (T) and the group (S)
ICur == [operands |-> operands, sp |-> sp, scope |-> scope, ip |-> ip,
         out |-> out, listener |-> listener, instr |-> NoInstr,
         prev_opcode |-> prev_opcode, frames |-> frames,
         T |-> STCur, S |-> Cur]

\* ErrorManager.run_time_error(interp, scope, error, arg)
run_time_error(M, error, arg) ==
    [M EXCEPT !.listener = Append(@, <<error, arg>>)]

\* Interpreter.exec's except clause: the exception leaves every _exec on the
\* way, INTERNAL_ERROR is reported, exec returns
internal_error(M, opcode, exception) ==
    [run_time_error(M, "INTERNAL_ERROR", exception) EXCEPT
        !.scope = "",
        !.frames = <<>>,
        !.instr = [opcode |-> opcode, name |-> "", o |-> NoneValue,
                   raised |-> exception]]

\* self.operands[++self.sp] = o: the double unary plus leaves sp as it is
store_operand(M, opcode, name, o) ==
    LET slot == PyIndex(DEFAULT_OPERAND_STACK_SIZE, M.sp)
    IN  IF slot < 0 THEN internal_error(M, opcode, "IndexError")
        ELSE [M EXCEPT !.operands[slot] = o,
                       !.instr = [opcode |-> opcode, name |-> name,
                                  o |-> o, raised |-> ""]]

\* the end of the loop body of _exec: prev_opcode = opcode
Finish(M, opcode) ==
    IF M.scope = "" THEN M ELSE [M EXCEPT !.prev_opcode = opcode]

IApply(M) ==
    /\ operands' = M.operands
    /\ sp' = M.sp
    /\ scope' = M.scope
    /\ ip' = M.ip
    /\ out' = M.out
    /\ listener' = M.listener
    /\ ilast' = M.instr
    /\ prev_opcode' = M.prev_opcode
    /\ frames' = M.frames
    /\ impls' = M.T.impls
    /\ sts' = M.T.sts
    /\ heap' = M.T.heap
    /\ templates' = M.S.templates
    /\ UNCHANGED <<dictionaries, imports, imports_to_clear_on_unload,
                   already_loaded, parses, last, threads, added, stlast,
                   toolVars>>

ICommit(M) == IApply(M) /\ UNCHANGED <<execs, calls>>

\* the scopes from sc up the parent chain, nearest first
RECURSIVE ScopeChain(_)
ScopeChain(sc) ==
    IF sc = "" THEN <<>> ELSE <<sc>> \o ScopeChain(InstanceScope(sc).parent)

\* Interpreter._set_default_arguments(out, scope): formal_args[i] looks the
\* integer i up in a dict keyed by argument name
set_default_arguments(M, s) ==
    LET st == M.T.sts[s]
        formal_args == M.T.impls[st.impl].formal_arguments
    IN  IF formal_args = <<>> THEN M
        ELSE internal_error(
                 IF st.locals = <<>>
                 THEN [M EXCEPT !.T.sts[s].locals =
                          [i \in 1..Len(formal_args) |-> NoneValue]]
                 ELSE M,
                 "exec", "KeyError")

\* a new Interpreter runs exec(out, scope) on a scope whose templates exist,
\* writing to a new AutoIndentWriter
Exec(sc) ==
    /\ scope = ""
    /\ execs < MaxExecs
    /\ \A i \in DOMAIN ScopeChain(sc) :
          sts[InstanceScope(ScopeChain(sc)[i]).st].created
    /\ execs' = execs + 1
    /\ UNCHANGED calls
    /\ IApply(set_default_arguments(
                  [ICur EXCEPT !.operands = NewOperands, !.sp = -1,
                               !.scope = sc, !.ip = 0,
                               !.out = AutoIndentWriter,
                               !.prev_opcode = 0, !.frames = <<>>],
                  InstanceScope(sc).st))

Running == scope # ""

\* self_.compiled of the running scope
RunningCode == Code(sts[ScopeST(scope)].impl)

AtOpcode(opcode) ==
    /\ Running
    /\ ip < Len(RunningCode.instrs)
    /\ RunningCode.instrs[ip + 1] = opcode

\* _exec, opcode INSTR_LOAD_ATTR
LoadAttr ==
    /\ AtOpcode(INSTR_LOAD_ATTR)
    /\ LET code == RunningCode
           name_index == get_short(code.instrs, ip + 1)
           M == [ICur EXCEPT !.ip = ip + 1 + OPND_SIZE_IN_BYTES]
       IN  IF name_index >= Len(code.strings)
           THEN ICommit(internal_error(M, "LOAD_ATTR", "IndexError"))
           ELSE LET name == code.strings[name_index + 1]
                    r == interp_get_attribute(STCur, scope, name)
                    M1 == IF r.raised # ""
                          THEN run_time_error(M, "NO_SUCH_ATTRIBUTE", name)
                          ELSE M
                    o == IF r.raised # "" \/ r.o = EMPTY_ATTR THEN NoneValue
                         ELSE r.o
                IN  ICommit(Finish(store_operand(M1, "LOAD_ATTR", name, o),
                                   INSTR_LOAD_ATTR))

\* _exec, opcode INSTR_LOAD_LOCAL
LoadLocal ==
    /\ AtOpcode(INSTR_LOAD_LOCAL)
    /\ LET code == RunningCode
           value_index == get_short(code.instrs, ip + 1)
           locals == sts[ScopeST(scope)].locals
           M == [ICur EXCEPT !.ip = ip + 1 + OPND_SIZE_IN_BYTES]
       IN  IF locals = <<>>
           THEN ICommit(internal_error(M, "LOAD_LOCAL", "TypeError"))
           ELSE IF value_index >= Len(locals)
           THEN ICommit(internal_error(M, "LOAD_LOCAL", "IndexError"))
           ELSE LET o == IF locals[value_index + 1] = EMPTY_ATTR
                         THEN NoneValue ELSE locals[value_index + 1]
                IN  ICommit(Finish(store_operand(M, "LOAD_LOCAL", "", o),
                                   INSTR_LOAD_LOCAL))

\* STGroup.get_embedded_instance_of(interp, scope, name): the prefix of a
\* template of the root directory is "/"
get_embedded_instance_of(M, name) ==
    LET fully_qualified_name == IF name \in Names THEN name ELSE "/" \o name
        r == lookup_template(M.S, RunGroup, fully_qualified_name, 0)
        st == CHOOSE e \in Embedded : ~M.T.sts[e].created
        M1 == [M EXCEPT !.S = r.S]
    IN  IF r.raised # "" THEN [M |-> M1, st |-> "", raised |-> r.raised]
        ELSE IF r.code = None
        THEN [M |-> [run_time_error(M1, "NO_SUCH_TEMPLATE",
                                    fully_qualified_name)
                       EXCEPT !.T = create_string_template(@, st, BlankImpl)],
              st |-> st, raised |-> ""]
        ELSE [M |-> [M1 EXCEPT
                       !.T = create_string_template(@, st, ImplOf(r.code))],
              st |-> st, raised |-> ""]

\* Interpreter._store_args(scope, nargs, st): locals_[j] = operands[sp - i]
store_args(M, nargs, st) ==
    LET locals_ == [j \in 1..nargs |->
                      M.operands[PyIndex(DEFAULT_OPERAND_STACK_SIZE,
                                         M.sp - (nargs - j))]]
        old == M.T.sts[st].locals
    IN  IF nargs = 0 THEN M
        ELSE IF \E i \in 0..(nargs - 1) :
                   PyIndex(DEFAULT_OPERAND_STACK_SIZE, M.sp - i) < 0
        THEN internal_error(M, "NEW", "IndexError")
        ELSE [M EXCEPT !.T.sts[st].locals =
                 IF old = <<>> THEN locals_
                 ELSE locals_ \o SubSeq(old, nargs + 1, Len(old))]

\* INSTR_NEW after _store_args: sp -= nargs, operands[++sp] = st
new_stored(M, nargs, name, st) ==
    IF M.scope = "" THEN M
    ELSE Finish(store_operand([M EXCEPT !.sp = @ - nargs], "NEW", name, st),
                INSTR_NEW)

\* INSTR_NEW once the group has answered with r: _store_args into r.st
new_instance(r, nargs, name) ==
    IF r.raised # "" THEN internal_error(r.M, "NEW", r.raised)
    ELSE new_stored(store_args(r.M, nargs, r.st), nargs, name, r.st)

\* INSTR_NEW with its operands decoded: name = strings[name_index],
\* st = group.get_embedded_instance_of(self, scope, name)
new_decoded(M, code, name_index, nargs) ==
    IF name_index >= Len(code.strings)
    THEN internal_error(M, "NEW", "IndexError")
    ELSE new_instance(
             get_embedded_instance_of(M, code.strings[name_index + 1]),
             nargs, code.strings[name_index + 1])

\* _exec, opcode INSTR_NEW
New ==
    /\ AtOpcode(INSTR_NEW)
    /\ \E e \in Embedded : ~sts[e].created
    /\ ICommit(new_decoded(
                   [ICur EXCEPT !.ip = ip + 1 + 2 * OPND_SIZE_IN_BYTES],
                   RunningCode,
                   get_short(RunningCode.instrs, ip + 1),
                   get_short(RunningCode.instrs,
                             ip + 1 + OPND_SIZE_IN_BYTES)))

\* Interpreter._write_template(out, invoking_scope, st): _exec runs st in a
\* new scope; the invoking _exec waits in frames
write_template(M, st) ==
    [M EXCEPT !.frames = Append(@, [scope |-> M.scope, ip |-> M.ip]),
              !.scope = st,
              !.ip = 0,
              !.prev_opcode = 0]

RECURSIVE write_items(_, _)
\* Interpreter._write_object_no_options(out, scope, o) for the items of a
\* list: None writes nothing, any other item is written as str(item)
write_items(w, items) ==
    IF items = <<>> THEN w
    ELSE write_items(IF Head(items) = NoneValue THEN w
                     ELSE write(w, Head(items), NoneValue),
                     Tail(items))

\* Interpreter._write_object_no_options(out, scope, o) for an o that is no
\* template: the group has no renderer
write_object_no_options(M, o) ==
    IF o = NoneValue THEN M
    ELSE IF IsList(o) THEN [M EXCEPT !.out = write_items(@, M.T.heap[o].elems)]
    ELSE [M EXCEPT !.out = write(@, o, NoneValue)]

\* _exec, opcode INSTR_WRITE: o = operands[sp], sp -= 1, o is written
Write ==
    /\ AtOpcode(INSTR_WRITE)
    /\ LET slot == PyIndex(DEFAULT_OPERAND_STACK_SIZE, sp)
           M == [ICur EXCEPT !.ip = ip + 1]
       IN  IF slot < 0 THEN ICommit(internal_error(M, "WRITE", "IndexError"))
           ELSE LET o == operands[slot]
                    M1 == [M EXCEPT
                             !.sp = @ - 1,
                             !.instr = [opcode |-> "WRITE", name |-> "",
                                        o |-> o, raised |-> ""]]
                IN  IF o \in AllSTs THEN ICommit(write_template(M1, o))
                    ELSE ICommit(Finish(write_object_no_options(M1, o),
                                        INSTR_WRITE))

\* _exec's loop ends at code_size: _exec returns, to the INSTR_WRITE of the
\* invoking _exec if there is one
ExecReturn ==
    /\ Running
    /\ ip >= Len(RunningCode.instrs)
    /\ LET M == [ICur EXCEPT !.instr = [opcode |-> "return", name |-> "",
                                        o |-> NoneValue, raised |-> ""]]
       IN  IF frames = <<>> THEN ICommit([M EXCEPT !.scope = ""])
           ELSE ICommit([M EXCEPT
                           !.scope = frames[Len(frames)].scope,
                           !.ip = frames[Len(frames)].ip,
                           !.prev_opcode = INSTR_WRITE,
                           !.frames = SubSeq(@, 1, Len(@) - 1)])

\* templates are defined, created and filled before they are run
NextInterp ==
    \/ ~Running /\ DefineTemplate(RunGroup, "/b", "t1", <<>>)
    \/ \E s \in STs, c \in Impls \cup {CallerImpl} :
          ~Running /\ CreateStringTemplate(s, c)
    \/ \E s \in STs, n \in ArgNames, v \in Scalars :
          ~Running /\ TotalAdds < MaxRunAdds /\ Add(s, n, v)
    \/ \E sc \in Scopes : Exec(sc)
    \/ LoadAttr
    \/ LoadLocal
    \/ New
    \/ Write
    \/ ExecReturn

SpecInterp == Init /\ [][NextInterp]_vars

\* the scope that invoked scope sc
ScopeParent(sc) ==
    IF sc \in Embedded
    THEN frames[CHOOSE i \in DOMAIN frames :
                   \/ i = Len(frames) /\ scope = sc
                   \/ i < Len(frames) /\ frames[i + 1].scope = sc].scope
    ELSE InstanceScope(sc).parent

\* the instance that defines the name nearest to scope sc, "" if none does
RECURSIVE DefiningScope(_, _)
DefiningScope(sc, name) ==
    IF sc = "" THEN ""
    ELSE IF name \in Range(impls[sts[ScopeST(sc)].impl].formal_arguments)
    THEN sc
    ELSE DefiningScope(ScopeParent(sc), name)

\* the step just taken executed a LOAD_ATTR of a name it decoded
LoadedAttr ==
    /\ Running
    /\ ip' # ip
    /\ ilast'.opcode = "LOAD_ATTR"
    /\ ilast'.name # ""

\* C9 (as stated): LOAD_ATTR loads the value of the nearest scope of the
\* parent chain that defines the name
C9_AsStated ==
    [][(LoadedAttr /\ DefiningScope(scope, ilast'.name) # "")
         => ilast'.o = get_attribute(STCur,
                 ScopeST(DefiningScope(scope, ilast'.name)),
                 ilast'.name).o]_vars

\* C10 (as stated): a LOAD_ATTR of a name no scope of the chain defines
\* reports NO_SUCH_ATTRIBUTE, pushes None and goes on to the next instruction
C10_AsStated ==
    [][(LoadedAttr /\ DefiningScope(scope, ilast'.name) = "")
         => /\ listener' = Append(listener, <<"NO_SUCH_ATTRIBUTE", ilast'.name>>)
            /\ sp' = sp + 1
            /\ operands'[PyIndex(DEFAULT_OPERAND_STACK_SIZE, sp')] = NoneValue
            /\ scope' = scope
            /\ ip' = ip + 1 + OPND_SIZE_IN_BYTES]_vars


---------------------------------------------------------------------------
\* Template references that resolve nowhere

\* the scope and the instruction pointer of the _exec that exec started
TopScope == IF frames = <<>> THEN scope ELSE frames[1].scope

TopIp == IF frames = <<>> THEN ip ELSE frames[1].ip

\* the step just taken executed the INSTR_NEW of a name that resolves nowhere
UnresolvedNew ==
    /\ Running
    /\ ip' # ip
    /\ ilast'.opcode = "NEW"
    /\ ilast'.name # ""
    /\ ~IsTemplate(lookup_template(Cur, RunGroup, "/" \o ilast'.name, 0).code)

\* the run is past the INSTR_NEW of "<b()><x>", and b resolved nowhere
AfterUnresolvedNew ==
    /\ Running
    /\ sts[ScopeST(TopScope)].impl = CallerImpl
    /\ TopIp >= 1 + 2 * OPND_SIZE_IN_BYTES
    /\ templates[RunGroup]["/b"] = NOT_FOUND_ST

\* the step just taken ended exec with an exception
Aborted == scope' = "" /\ ilast'.raised # ""

\* C11 (as stated): a reference to a template name that resolves nowhere
\* reports NO_SUCH_TEMPLATE and evaluates to a blank template, and the
\* render is not aborted: the remaining instructions of the enclosing
\* template execute
C11_AsStated ==
    /\ [][UnresolvedNew =>
            /\ listener' = Append(listener,
                                  <<"NO_SUCH_TEMPLATE", "/" \o ilast'.name>>)
            /\ ilast'.o \in Embedded
            /\ sts'[ilast'.o].impl = BlankImpl
            /\ Running']_vars
    /\ [][AfterUnresolvedNew => ~Aborted]_vars

---------------------------------------------------------------------------
\* Default values of formal arguments

\* no formal argument of instance s that declares a default is still unset
DefaultsInstalled(s) ==
    LET st == sts[s]
        formal_arguments == impls[st.impl].formal_arguments
    IN  \A i \in DOMAIN formal_arguments :
           default_value_token(st.impl, formal_arguments[i]) # NoneValue
             => /\ i <= Len(st.locals)
                /\ st.locals[i] # EMPTY_ATTR

\* C12 (as stated): while the body of a template instance executes, at the
\* top level or nested, no formal argument that declares a default still
\* holds EMPTY: the default was installed before the body began
C12_AsStated == Running => DefaultsInstalled(ScopeST(scope))

\* bound on the named-argument calls of one run
MaxCalls == 2

\* the order in which a call lists its named arguments
ArgOrder == <<"x", "y">>

\* the maps INSTR_ARGS and INSTR_STORE_ARG build for a call with named
\* arguments: at least one argument, each bound to a value or to None
ArgMaps ==
    UNION {[D -> Scalars \cup {NoneValue}] : D \in (SUBSET ArgNames) \ {{}}}

RECURSIVE report_unknown_args(_, _, _, _)
\* the second loop of _store_args_from_map: every key of attrs that is no
\* formal argument is reported
report_unknown_args(M, attrs, formal_arguments, i) ==
    IF i > Len(ArgOrder) THEN M
    ELSE report_unknown_args(
             IF /\ ArgOrder[i] \in DOMAIN attrs
                /\ ArgOrder[i] \notin Range(formal_arguments)
             THEN run_time_error(M, "TEMPLATE_REDEFINITION_ACROSS_DELIMITERS",
                                 ArgOrder[i])
             ELSE M,
             attrs, formal_arguments, i + 1)

\* Interpreter._store_args_from_map(scope, attrs, st)
store_args_from_map(M, attrs, st) ==
    LET formal_arguments == M.T.impls[M.T.sts[st].impl].formal_arguments
        locals == M.T.sts[st].locals
        value(name) == IF name \in DOMAIN attrs THEN attrs[name]
                       ELSE NoneValue
    IN  IF DOMAIN attrs = {} THEN M
        ELSE IF formal_arguments = <<>>
        THEN run_time_error(M, "ARGUMENT_COUNT_MISMATCH", st)
        ELSE IF locals = <<>>
        THEN internal_error(M, "NEW_BOX_ARGS", "TypeError")
        ELSE IF Len(formal_arguments) > Len(locals)
        THEN internal_error(M, "NEW_BOX_ARGS", "IndexError")
        ELSE report_unknown_args(
                 [M EXCEPT !.T.sts[st].locals =
                     [i \in DOMAIN locals |->
                        IF i > Len(formal_arguments) THEN locals[i]
                        ELSE IF value(formal_arguments[i]) # NoneValue
                        THEN value(formal_arguments[i])
                        ELSE IF locals[i] = EMPTY_ATTR THEN NoneValue
                        ELSE locals[i]]],
                 attrs, formal_arguments, 1)

\* _exec, opcode INSTR_NEW_BOX_ARGS, from the map of named arguments on: the
\* instance of template b is created and given the arguments of the map
NewBoxArgs(attrs) ==
    /\ ~Running
    /\ Len(calls) < MaxCalls
    /\ \E e \in Embedded : ~sts[e].created
    /\ LET r == get_embedded_instance_of(ICur, "b")
           M == store_args_from_map(r.M, attrs, r.st)
       IN  /\ IApply(M)
           /\ calls' = Append(calls, [op |-> "NEW_BOX_ARGS", st |-> r.st,
                                      attrs |-> attrs])
    /\ UNCHANGED execs

\* the INSTR_WRITE of the instance a call made: _write_template runs it
WriteInstance(e) ==
    /\ ~Running
    /\ sts[e].created
    /\ execs < MaxCalls
    /\ execs' = execs + 1
    /\ UNCHANGED calls
    /\ IApply([ICur EXCEPT !.operands = NewOperands, !.sp = -1,
                           !.scope = e, !.ip = 0,
                           !.out = AutoIndentWriter,
                           !.prev_opcode = 0, !.frames = <<>>])

\* Calls with named arguments: the group defines b(x="v2", y) ::= "<x><y>"
\* or nothing, calls create instances of b, and the instances are written
NextArgs ==
    \/ ~Running /\ DefineTemplate(RunGroup, "/b", "t2", <<>>)
    \/ \E attrs \in ArgMaps : NewBoxArgs(attrs)
    \/ \E e \in Embedded : WriteInstance(e)
    \/ LoadLocal
    \/ Write
    \/ ExecReturn

SpecArgs == Init /\ [][NextArgs]_vars

\* the call that created instance e
CallOf(e) == calls[CHOOSE i \in DOMAIN calls : calls[i].st = e]

\* C13 (as stated): in the instance a named-argument call created, a formal
\* argument the call bound holds what it was bound to (also None), never
\* its default, and a formal argument with a default that the call omitted
\* holds its default value when the body of the instance runs
C13_AsStated ==
    \A e \in Embedded :
       (sts[e].created /\ sts[e].impl # BlankImpl) =>
          LET formal_arguments == impls[sts[e].impl].formal_arguments
              attrs == CallOf(e).attrs
          IN  \A i \in DOMAIN formal_arguments :
                 /\ formal_arguments[i] \in DOMAIN attrs
                      => sts[e].locals[i] = attrs[formal_arguments[i]]
                 /\ (/\ formal_arguments[i] \notin DOMAIN attrs
                     /\ default_value_token(sts[e].impl, formal_arguments[i])
                          # NoneValue
                     /\ scope = e)
                      => sts[e].locals[i] =
                           default_value_token(sts[e].impl,
                                               formal_arguments[i])

---------------------------------------------------------------------------
\* MAP and ZIP_MAP: a template applied to the elements of its arguments

\* the elements _map and _zip_map walk: the items of a list, the characters
\* of a string (a str has __len__ and is iterated like a list)
Elements(T, o) == IF IsList(o) THEN T.heap[o].elems ELSE Chars(o)

\* Interpreter._get_number_of_elements(o)
get_number_of_elements(T, o) ==
    IF o = NoneValue THEN 0 ELSE Len(Elements(T, o))

\* a new list object holding elems
NewResultList(M, elems) ==
    LET r == ResultLists[CHOOSE i \in DOMAIN ResultLists :
                 /\ ~M.T.heap[ResultLists[i]].allocated
                 /\ \A j \in 1..(i - 1) : M.T.heap[ResultLists[j]].allocated]
    IN  [M |-> [M EXCEPT !.T.heap[r] = [managed |-> FALSE, allocated |-> TRUE,
                                        elems |-> elems]],
         list |-> r]

\* st.locals with [None] * len(formal_arguments) in place of None
LocalsOrNones(M, st) ==
    IF M.T.sts[st].locals = <<>>
    THEN [j \in 1..Len(M.T.impls[M.T.sts[st].impl].formal_arguments) |->
            NoneValue]
    ELSE M.T.sts[st].locals

\* st.locals[formal_arguments[name].index] = value
SetLocal(M, st, name, value) ==
    [M EXCEPT !.T.sts[st].locals =
        [LocalsOrNones(M, st) EXCEPT
            ![IndexOf(M.T.impls[M.T.sts[st].impl].formal_arguments, name) + 1]
                = value]]

\* Interpreter._apply_template_to_an_element(scope, o, st, i, last_index):
\* st itself is given i0, i and its first argument and is returned;
\* CompiledST has no args_metadata, so reading it raises AttributeError
apply_template_to_an_element(M, o, st, i) ==
    LET formal_arguments == M.T.impls[M.T.sts[st].impl].formal_arguments
        names == Range(formal_arguments)
        has_implicit_iteration == "i0" \in names \/ "i" \in names
        M1 == IF "i0" \in names THEN SetLocal(M, st, "i0", ToString(i))
              ELSE M
        M2 == IF "i" \in names THEN SetLocal(M1, st, "i", ToString(i + 1))
              ELSE M1
        n == Len(formal_arguments) - (IF has_implicit_iteration THEN 2 ELSE 0)
    IN  IF formal_arguments = <<>> THEN M
        ELSE IF n <= 0 THEN M2
        ELSE IF "it" \in names THEN SetLocal(M2, st, "it", o)
        ELSE internal_error([M2 EXCEPT !.T.sts[st].locals =
                                 LocalsOrNones(M2, st)],
                            "MAP", "AttributeError")

RECURSIVE map_from(_, _, _, _, _)
\* the loop of _map: result.append(_apply_template_to_an_element(...))
map_from(M, elems, st, i, result) ==
    IF M.instr.raised # "" \/ i >= Len(elems)
    THEN [M |-> M, result |-> result]
    ELSE map_from(apply_template_to_an_element(M, elems[i + 1], st, i),
                  elems, st, i + 1, Append(result, st))

\* Interpreter._map(scope, o, st)
map(M, o, st) ==
    IF o = NoneValue THEN store_operand(M, "MAP", "", NoneValue)
    ELSE LET r == map_from(M, Elements(M.T, o), st, 0, <<>>)
             l == NewResultList(r.M, r.result)
         IN  IF r.M.instr.raised # "" THEN r.M
             ELSE store_operand(l.M, "MAP", "", l.list)

\* what a call left at operands[sp], None if it raised
ResultOf(M) == IF M.instr.raised # "" THEN NoneValue ELSE M.instr.o

\* _exec, opcode INSTR_MAP, from the operands on: the prototype is a new
\* instance of the anonymous template c, o the value it is mapped across
Map(o, c) ==
    /\ ~Running
    /\ Len(calls) < MaxCalls
    /\ LET st == CHOOSE e \in Embedded : ~sts[e].created
           M == map([ICur EXCEPT
                        !.T = create_string_template(@, st, c)], o, st)
       IN  /\ IApply([M EXCEPT !.scope = ""])
           /\ calls' = Append(calls, [op |-> "MAP", st |-> st,
                                      attrs |-> <<o>>,
                                      result |-> ResultOf(M)])
    /\ UNCHANGED execs

\* Interpreter._apply_template_with_args(scope, st, i, values)
apply_template_with_args(M, st, i, values) ==
    LET formal_arguments == M.T.impls[M.T.sts[st].impl].formal_arguments
        names == Range(formal_arguments)
        M1 == IF "i0" \in names THEN SetLocal(M, st, "i0", ToString(i))
              ELSE M
        M2 == IF "i" \in names /\ M1.T.sts[st].locals = <<>>
              THEN SetLocal(M1, st, "i", ToString(i + 1))
              ELSE M1
        M3 == [M2 EXCEPT !.T.sts[st].locals = LocalsOrNones(M2, st)]
        n == IF Len(values) < Len(formal_arguments) THEN Len(values)
             ELSE Len(formal_arguments)
    IN  IF formal_arguments = <<>> THEN M
        ELSE IF "it" \in names
        THEN IF n > 1
             THEN internal_error(SetLocal(M3, st, "it", values[1]),
                                 "ZIP_MAP", "AttributeError")
             ELSE SetLocal(M3, st, "it", values[1])
        ELSE internal_error(M3, "ZIP_MAP", "AttributeError")

RECURSIVE zip_map_from(_, _, _, _, _, _)
\* the loop of _zip_map over the positions 0..n-1
zip_map_from(M, exprs, st, i, n, result) ==
    IF M.instr.raised # "" \/ i >= n THEN [M |-> M, result |-> result]
    ELSE zip_map_from(
             apply_template_with_args(
                 M, st, i,
                 [j \in DOMAIN exprs |-> Elements(M.T, exprs[j])[i + 1]]
                   \o <<ToString(i), ToString(i + 1)>>),
             exprs, st, i + 1, n, Append(result, st))

\* Interpreter._zip_map(scope, exprs, st)
zip_map(M, exprs, st) ==
    LET n == get_number_of_elements(M.T, exprs[1])
        r == zip_map_from(M, exprs, st, 0, n, <<>>)
    IN  IF exprs = <<>> THEN NewResultList(M, <<>>)
        ELSE IF \E j \in DOMAIN exprs :
                   get_number_of_elements(M.T, exprs[j]) # n
        THEN NewResultList(
                 run_time_error(M, "ZIP_MAP_ARGUMENT_COUNT_MISMATCH", ""),
                 <<>>)
        ELSE IF r.M.instr.raised # "" THEN [M |-> r.M, list |-> NoneValue]
        ELSE NewResultList(r.M, r.result)

\* _exec, opcode INSTR_ZIP_MAP, from the operands on: the prototype is a new
\* instance of the anonymous template c, exprs the values it is zipped over
ZipMap(exprs, c) ==
    /\ ~Running
    /\ Len(calls) < MaxCalls
    /\ LET st == CHOOSE e \in Embedded : ~sts[e].created
           z == zip_map([ICur EXCEPT
                            !.T = create_string_template(@, st, c)],
                        exprs, st)
           M == IF z.M.instr.raised # "" THEN z.M
                ELSE store_operand(z.M, "ZIP_MAP", "", z.list)
       IN  /\ IApply([M EXCEPT !.scope = ""])
           /\ calls' = Append(calls, [op |-> "ZIP_MAP", st |-> st,
                                      attrs |-> exprs,
                                      result |-> ResultOf(M)])
    /\ UNCHANGED execs

\* the values a map is applied to
MapArgs == CallerLists \cup ArgLists \cup {NoneValue, "v1"}

\* a template is mapped across one value, or zipped over two lists
NextMap ==
    \/ \E o \in MapArgs, c \in {ItImpl, AnonImpl} : Map(o, c)
    \/ \E a, b \in CallerLists \cup ArgLists, c \in {ItImpl, AnonImpl} :
          ZipMap(<<a, b>>, c)

SpecMap == Init /\ [][NextMap]_vars

\* the value of formal argument name in instance s
LocalOf(s, name) ==
    sts[s].locals[IndexOf(impls[sts[s].impl].formal_arguments, name) + 1]

\* C14 (as stated): a map over a list of n elements that returns yields n
\* distinct template instances; the k-th has its first argument bound to
\* the k-th element, i0 = k - 1 and i = k, whatever was bound after it
C14_AsStated ==
    \A c \in DOMAIN calls :
       (/\ calls[c].op = "MAP"
        /\ IsList(calls[c].attrs[1])
        /\ calls[c].result # NoneValue) =>
          LET elems == heap[calls[c].attrs[1]].elems
              r == calls[c].result
          IN  /\ IsList(r)
              /\ Len(heap[r].elems) = Len(elems)
              /\ \A k, l \in DOMAIN heap[r].elems :
                    k # l => heap[r].elems[k] # heap[r].elems[l]
              /\ \A k \in DOMAIN heap[r].elems :
                    LET s == heap[r].elems[k]
                    IN  /\ LocalOf(s, impls[sts[s].impl].formal_arguments[1])
                             = elems[k]
                        /\ LocalOf(s, "i0") = ToString(k - 1)
                        /\ LocalOf(s, "i") = ToString(k)

\* C15 (as stated): a zip over lists that returns has applied the template
\* once for each position up to the length of the shortest list, and has
\* reported ZIP_MAP_ARGUMENT_COUNT_MISMATCH as well when the lengths differ
C15_AsStated ==
    \A c \in DOMAIN calls :
       (calls[c].op = "ZIP_MAP" /\ calls[c].result # NoneValue) =>
          LET a == Len(heap[calls[c].attrs[1]].elems)
              b == Len(heap[calls[c].attrs[2]].elems)
              r == calls[c].result
          IN  /\ IsList(r)
              /\ Len(heap[r].elems) = IF a < b THEN a ELSE b
              /\ a # b => \E i \in DOMAIN listener :
                             listener[i][1] = "ZIP_MAP_ARGUMENT_COUNT_MISMATCH"


---------------------------------------------------------------------------
(* Writing with options, indentation and newlines.  The instructions of a  *)
(* running _exec are taken from the operands on, in any order the code     *)
(* generator may emit them.                                                *)

\* the instructions of one run
MaxInstrs == 3

\* the line widths a render is asked for
LineWidths == {NO_WRAP, 4}

\* the indent strings of INSTR_INDENT
Indents == {"  "}

\* options = [None] * Compiler.NUM_OPTIONS, as INSTR_OPTIONS leaves it
NoOptions ==
    [anchor |-> NoneValue, format |-> NoneValue, null |-> NoneValue,
     separator |-> NoneValue, wrap |-> NoneValue]

\* the option lists of the expressions: null="N", separator=",", wrap="\n",
\* and separator and wrap together
OptionLists ==
    {[NoOptions EXCEPT !.null = "N"], [NoOptions EXCEPT !.separator = ","],
     [NoOptions EXCEPT !.wrap = "\n"],
     [NoOptions EXCEPT !.separator = ",", !.wrap = "\n"]}

\* the values the expressions write
WriteValues == {NoneValue, "v1", "a\nb", "L3"}

\* Interpreter._is_iterable(o): a list, a str, or any object at all, since
\* the group registers a model adaptor for object
is_iterable(o) == o # NoneValue

\* Interpreter._to_iterator(scope, o): ArrayIterator(o) for a list,
\* ArrayIterator(list(o)), the characters, for a str
to_iterator(T, o) == IF IsList(o) THEN T.heap[o].elems ELSE Chars(o)

RECURSIVE splitlines(_, _)
\* str.splitlines(keepends=True) of the characters after the line cur
splitlines(chars, cur) ==
    IF chars = <<>> THEN IF cur = <<>> THEN <<>> ELSE <<cur>>
    ELSE IF Head(chars) = "\n"
    THEN <<Append(cur, "\n")>> \o splitlines(Tail(chars), <<>>)
    ELSE splitlines(Tail(chars), Append(cur, Head(chars)))

RECURSIVE write_wrapped_lines(_, _, _, _)
\* the loop of _write_wrapped_string: out.write(wrap) writes the wrap string
\* as text in front of every line but the first
write_wrapped_lines(w, lines, i, wrap) ==
    IF i > Len(lines) THEN w
    ELSE LET w1 == IF i > 1 /\ Len(lines[i]) > 0
                   THEN write(w, wrap, NoneValue) ELSE w
             w2 == IF Len(lines[i]) > 0 THEN write_raw(w1, lines[i]) ELSE w1
         IN  write_wrapped_lines(w2, lines, i + 1, wrap)

\* Interpreter._write_wrapped_string(out, scope, s, wrap, anchor)
write_wrapped_string(M, s, wrap) ==
    [M EXCEPT !.out = write_wrapped_lines(@, splitlines(Chars(s), <<>>), 1,
                                          wrap)]

\* an exception on its way out of a call
Raising(M, exception) == [M EXCEPT !.instr.raised = exception]

RECURSIVE write_object_with_options(_, _, _, _)
RECURSIVE write_iterated(_, _, _, _, _, _)
\* the while loop of _write_object_with_options inside its try: a None is
\* skipped, the separator goes in front of every other value but the first,
\* and every other value, being iterable, is written by a recursive call;
\* an exception ends the loop in the except clause, which reports
\* WRITE_IO_ERROR
write_iterated(M, o, it, options, first, depth) ==
    IF it = <<>> THEN M
    ELSE LET iter_value == Head(it)
         IN  IF iter_value = NoneValue
             THEN write_iterated(M, o, Tail(it), options, first, depth)
             ELSE LET M1 == IF ~first /\ options.separator # NoneValue
                            THEN [M EXCEPT !.out = write(@, options.separator,
                                                         NoneValue)]
                            ELSE M
                      M2 == write_object_with_options(M1, iter_value, options,
                                                      depth + 1)
                  IN  IF M2.instr.raised # ""
                      THEN run_time_error(Raising(M2, ""), "WRITE_IO_ERROR", o)
                      ELSE write_iterated(M2, o, Tail(it), options, FALSE,
                                          depth)

\* Interpreter._write_object_with_options(out, scope, o, options) for an o
\* that is no template, depth calls deep: the group has no renderer
write_object_with_options(M, o, options, depth) ==
    IF depth > RecursionLimit THEN Raising(M, "RecursionError")
    ELSE IF o = NoneValue
    THEN IF options.null # NoneValue
         THEN [M EXCEPT !.out = write(@, options.null, NoneValue)]
         ELSE M
    ELSE IF ~is_iterable(o)
    THEN IF options.wrap # NoneValue /\ Len(Chars(o)) > 0
         THEN write_wrapped_string(M, o, options.wrap)
         ELSE [M EXCEPT !.out = write(@, o, NoneValue)]
    ELSE LET original_sp == M.sp
         IN  [write_iterated(M, o, to_iterator(M.T, o), options, TRUE, depth)
                 EXCEPT !.sp = original_sp]

\* ST.render(line_width): a new AutoIndentWriter with that line width, and
\* a new Interpreter's exec(out, scope) on the instance of scope sc
Render(sc, line_width) ==
    /\ scope = ""
    /\ execs = 0
    /\ sts[InstanceScope(sc).st].created
    /\ execs' = execs + 1
    /\ UNCHANGED calls
    /\ IApply(set_default_arguments(
                  [ICur EXCEPT !.operands = NewOperands, !.sp = -1,
                               !.scope = sc, !.ip = 0,
                               !.out = [AutoIndentWriter EXCEPT
                                           !.line_width = line_width],
                               !.prev_opcode = 0, !.frames = <<>>],
                  InstanceScope(sc).st))

\* one pass of _exec's loop over an instruction taken from the operands on;
\* the observer keeps the writer as the instruction found it
Instr(M, op, opcode, o, options) ==
    /\ IApply(Finish([M EXCEPT !.instr = [opcode |-> op, name |-> "",
                                          o |-> o, raised |-> @.raised]],
                     opcode))
    /\ calls' = Append(calls, [op |-> op, o |-> o, options |-> options,
                               before |-> out])
    /\ UNCHANGED execs

InLine == Running /\ Len(calls) < MaxInstrs

\* _exec, opcode INSTR_WRITE, for an o that is no template
WriteNoOptions(o) ==
    /\ InLine
    /\ Instr(write_object_no_options(ICur, o), "WRITE", INSTR_WRITE, o,
             NoOptions)

\* _exec, opcode INSTR_WRITE_OPT
WriteOpt(o, options) ==
    /\ InLine
    /\ Instr(write_object_with_options(ICur, o, options, 0), "WRITE_OPT",
             INSTR_WRITE_OPT, o, options)

\* _exec, opcode INSTR_INDENT: out.write(indent)
Indent(indent_str) ==
    /\ InLine
    /\ Instr([ICur EXCEPT !.out = write(@, indent_str, NoneValue)], "INDENT",
             INSTR_INDENT, indent_str, NoOptions)

\* the INSTR_INDENTs of the run that no INSTR_DEDENT has closed yet
OpenIndents ==
    Cardinality({i \in DOMAIN calls : calls[i].op = "INDENT"})
        - Cardinality({i \in DOMAIN calls : calls[i].op = "DEDENT"})

\* _exec, opcode INSTR_DEDENT: out.dedent(); the code generator closes the
\* INSTR_INDENT of an indented expression
Dedent ==
    /\ InLine
    /\ OpenIndents > 0
    /\ LET popped == pop_indentation(out)
       IN  IF popped.raised # ""
           THEN Instr(internal_error(ICur, "DEDENT", popped.raised), "DEDENT",
                      INSTR_DEDENT, NoneValue, NoOptions)
           ELSE Instr([ICur EXCEPT !.out = popped.w], "DEDENT", INSTR_DEDENT,
                      NoneValue, NoOptions)

\* an INSTR_NEWLINE that takes no notice of prev_opcode
Newline_after_any_opcode ==
    /\ InLine
    /\ Instr([ICur EXCEPT !.out = write(@, "\n", NoneValue)],
             "NEWLINE", INSTR_NEWLINE, NoneValue, NoOptions)

\* _exec, opcode INSTR_NEWLINE: nothing after an INSTR_NEWLINE or an
\* INSTR_INDENT, "\n" after anything else
Newline ==
    /\ InLine
    /\ Instr(IF prev_opcode = INSTR_NEWLINE \/ prev_opcode = INSTR_INDENT
             THEN ICur
             ELSE [ICur EXCEPT !.out = write(@, "\n", NoneValue)],
             "NEWLINE", INSTR_NEWLINE, NoneValue, NoOptions)

\* an instance of a template without arguments is rendered once; its
\* instructions write values, indent, dedent and end lines
NextWrite ==
    \/ ~Running /\ execs = 0 /\ CreateStringTemplate("s1", LineImpl)
    \/ \E w \in LineWidths : Render("sc1", w)
    \/ \E o \in WriteValues : WriteNoOptions(o)
    \/ \E o \in WriteValues, options \in OptionLists : WriteOpt(o, options)
    \/ \E i \in Indents : Indent(i)
    \/ Dedent
    \/ Newline

SpecWrite == Init /\ [][NextWrite]_vars

\* the writer as instruction k of the run left it
After(k) == IF k = Len(calls) THEN out ELSE calls[k + 1].before

\* the characters instruction k of the run added to the output
Written(k) ==
    SubSeq(After(k).text, Len(calls[k].before.text) + 1, Len(After(k).text))

\* the values of a list that are not None
NonNull(elems) == SelectSeq(elems, LAMBDA e : e # NoneValue)

RECURSIVE Join(_, _)
\* the texts joined by the separator
Join(texts, sep) ==
    IF texts = <<>> THEN <<>>
    ELSE IF Len(texts) = 1 THEN Head(texts)
    ELSE Head(texts) \o sep \o Join(Tail(texts), sep)

\* C16: a list written with a separator S, and neither null nor wrap option,
\* comes out as its non-null elements joined by S: the separator stands
\* exactly between consecutive non-null elements, never before the first or
\* after the last, and a skipped None brings no separator.
C16_AsStated ==
    \A k \in DOMAIN calls :
        (/\ calls[k].op = "WRITE_OPT"
         /\ IsList(calls[k].o)
         /\ calls[k].options.separator # NoneValue
         /\ calls[k].options.null = NoneValue
         /\ calls[k].options.wrap = NoneValue)
        => LET texts == [i \in DOMAIN NonNull(heap[calls[k].o].elems) |->
                           Chars(NonNull(heap[calls[k].o].elems)[i])]
           IN  Written(k) = Join(texts, Chars(calls[k].options.separator))

\* how often the character c stands in the text
Count(text, c) == Cardinality({i \in DOMAIN text : text[i] = c})

\* the None values a write of o comes across: o itself, or the None
\* elements of the list o
Nulls(o) ==
    IF o = NoneValue THEN 1
    ELSE IF IsList(o) THEN Len(heap[o].elems) - Len(NonNull(heap[o].elems))
    ELSE 0

\* C17: written with the option null="N", every None, the None elements of
\* an iterated list included, comes out as N (the values hold no N of their
\* own); without the option a None writes nothing.
C17_AsStated ==
    \A k \in DOMAIN calls :
        calls[k].op = "WRITE_OPT"
        => /\ calls[k].options.null # NoneValue
              => Count(Written(k), calls[k].options.null) = Nulls(calls[k].o)
           /\ calls[k].options.null = NoneValue /\ calls[k].o = NoneValue
              => Written(k) = <<>>

\* what INSTR_WRITE, the expression without options, adds to the writer that
\* instruction k found
WithoutWrap(k) ==
    LET w == write_object_no_options([ICur EXCEPT !.out = calls[k].before],
                                     calls[k].o).out
    IN  SubSeq(w.text, Len(calls[k].before.text) + 1, Len(w.text))

\* C18: written with a wrap option and no other, on a writer whose line
\* width is at least the length of what the expression writes without the
\* option (or that does not wrap at all), a value comes out as it does
\* without the option: the wrap string is not emitted.
C18_AsStated ==
    \A k \in DOMAIN calls :
        (/\ calls[k].op = "WRITE_OPT"
         /\ calls[k].options.wrap # NoneValue
         /\ calls[k].options.separator = NoneValue
         /\ calls[k].options.null = NoneValue
         /\ \/ calls[k].before.line_width = NO_WRAP
            \/ calls[k].before.line_width >=
                  Len(calls[k].before.text) + Len(WithoutWrap(k)))
        => Written(k) = WithoutWrap(k)

RECURSIVE ExpectedIndents(_)
\* the indent stack the first k instructions of the run call for: an
\* INSTR_INDENT puts its indent on the stack, the matching INSTR_DEDENT
\* takes it off
ExpectedIndents(k) ==
    IF k = 0 THEN AutoIndentWriter.indents
    ELSE LET before == ExpectedIndents(k - 1)
         IN  IF calls[k].op = "INDENT" THEN Append(before, calls[k].o)
             ELSE IF calls[k].op = "DEDENT"
             THEN SubSeq(before, 1, Len(before) - 1)
             ELSE before

\* the text of the indents of a stack
IndentText(indents) ==
    Concat([i \in DOMAIN indents |->
              IF indents[i] = NoneValue THEN <<>> ELSE Chars(indents[i])])

\* the positions of the output at which instruction k began a line that is
\* not empty
LineStarts(k) ==
    {p \in (Len(calls[k].before.text) + 1)..Len(After(k).text) :
        /\ p > 1
        /\ After(k).text[p - 1] = "\n"
        /\ After(k).text[p] # "\n"}

\* C19: an INSTR_INDENT stays on the writer's indent stack until its
\* INSTR_DEDENT, which leaves the stack as deep as it was, and every line
\* that is written in between begins with the indent.
C19_AsStated ==
    \A k \in DOMAIN calls :
        /\ ilast.raised = "" => After(k).indents = ExpectedIndents(k)
        /\ calls[k].op = "WRITE"
           => \A p \in LineStarts(k) :
                 LET ind == IndentText(ExpectedIndents(k))
                 IN  /\ p + Len(ind) - 1 <= Len(After(k).text)
                     /\ SubSeq(After(k).text, p, p + Len(ind) - 1) = ind

\* C20: INSTR_INDENT, an expression that writes nothing, INSTR_NEWLINE: the
\* output after the three instructions is the output before them.
C20_AsStated ==
    \A k \in DOMAIN calls :
        (/\ k + 2 <= Len(calls)
         /\ calls[k].op = "INDENT"
         /\ calls[k + 1].op \in {"WRITE", "WRITE_OPT"}
         /\ Written(k + 1) = <<>>
         /\ calls[k + 2].op = "NEWLINE")
        => After(k + 2).text = calls[k].before.text

---------------------------------------------------------------------------
(* Conditionals: INSTR_BRF and the truth of a value.  A value is given by  *)
(* its Python type, its length where it has one, and its value where it is *)
(* a bool or an int.                                                       *)

\* the types with a len() that _test_attribute_true names, the iterables
\* without one it reaches through abc.Iterable; it looks into no other type
SizedTypes == {"list", "tuple", "array", "str"}

MappingTypes == {"dict"}

IterableTypes == {"set", "frozenset"}

Value(type, len, val) == [type |-> type, len |-> len, val |-> val]

\* the values a conditional tests: None, False and True, empty and
\* non-empty containers, the integers 0 and 1, an object
TestValues ==
    {Value("NoneType", 0, 0), Value("bool", 0, 0), Value("bool", 0, 1),
     Value("int", 0, 0), Value("int", 0, 1), Value("object", 0, 0)}
    \cup {Value(t, n, 0) :
            t \in SizedTypes \cup MappingTypes \cup IterableTypes,
            n \in {0, 1}}

\* the addresses INSTR_BRF jumps to
BranchTargets == {1, 9}

\* a truth test that takes the integer zero for false
test_attribute_true_zero_false(a) ==
    IF a.type = "NoneType" THEN FALSE
    ELSE IF a.type = "bool" \/ a.type = "int" THEN a.val # 0
    ELSE IF a.type \in SizedTypes THEN a.len > 0
    ELSE IF a.type \in MappingTypes THEN a.len > 0
    ELSE IF a.type \in IterableTypes THEN a.len > 0
    ELSE TRUE

\* Interpreter._test_attribute_true(a)
test_attribute_true(a) ==
    IF a.type = "NoneType" THEN FALSE
    ELSE IF a.type = "bool" THEN a.val = 1
    ELSE IF a.type \in SizedTypes THEN a.len > 0
    ELSE IF a.type \in MappingTypes THEN a.len > 0
    ELSE IF a.type \in IterableTypes THEN a.len > 0
    ELSE TRUE

\* _exec, opcode INSTR_BRF, from the operands on: addr is the operand of the
\* instruction, o the value on top of the stack
Brf(o, addr) ==
    /\ ~Running
    /\ Len(calls) < MaxCalls
    /\ IApply([ICur EXCEPT
                  !.sp = @ - 1,
                  !.ip = IF ~test_attribute_true(o) THEN addr
                         ELSE ip + OPND_SIZE_IN_BYTES])
    /\ calls' = Append(calls, [op |-> "BRF", o |-> o, addr |-> addr,
                               ip |-> ip])
    /\ UNCHANGED execs

NextTruth == \E o \in TestValues, addr \in BranchTargets : Brf(o, addr)

SpecTruth == Init /\ [][NextTruth]_vars

\* the instruction pointer after call k of the run
IpAfter(k) == IF k = Len(calls) THEN ip ELSE calls[k + 1].ip

\* the truth of a value as a conditional is to see it
Truth(a) ==
    CASE a.type = "NoneType" -> FALSE
      [] a.type = "bool" -> a.val = 1
      [] a.type \in {"str", "list", "array", "tuple", "set", "frozenset",
                     "dict"} -> a.len > 0
      [] OTHER -> TRUE

---------------------------------------------------------------------------
(* The template lexer outside of expressions: STLexer._next_token, outside *)
(* and m_text.  The input is an antlr4 InputStream, whose LA(i) is the     *)
(* code point of a character, or -1 past the end.                          *)

\* the longest text in front of the newline that ends a lexed line
MaxTextLen == 3

\* the characters of the texts: a letter, the backslash, the delimiters
TextChars == {"a", "\\", "<", "}"}

\* the code points of the characters
CodePoints == <<<<"a", 97>>, <<"\\", 92>>, <<"<", 60>>, <<"}", 125>>,
                <<"\n", 10>>>>

\* ord(c)
ord(c) == CodePoints[CHOOSE i \in DOMAIN CodePoints : CodePoints[i][1] = c][2]

\* chr(n) for the code point of a character
chr(n) == CodePoints[CHOOSE i \in DOMAIN CodePoints : CodePoints[i][2] = n][1]

\* Token.EOF, what LA answers past the end of the input
TokenEOF == -1

\* the lines a lexer is given: a text without the escape expression <\...>,
\* which is another rule, ended by a newline
Lines ==
    {t \o <<"\n">> :
        t \in {u \in UNION {[1..n -> TextChars] : n \in 1..MaxTextLen} :
                 \A i \in 1..(Len(u) - 1) : ~(u[i] = "<" /\ u[i + 1] = "\\")}}

\* InputStream.LA(i): the code point i - 1 characters after the index
LA(L, i) ==
    IF L.index + i <= Len(L.input) THEN ord(L.input[L.index + i])
    ELSE TokenEOF

\* a code point compared with a str by ==: an int never equals a str
IntEqualsStr(n, str) == FALSE

\* STLexer.consume(): input.consume(), c = chr(input.LA(1)); chr(-1) raises
\* ValueError
consume(L) ==
    IF L.raised # "" THEN L
    ELSE LET L1 == [L EXCEPT !.index = @ + 1]
         IN  IF LA(L1, 1) = TokenEOF THEN [L1 EXCEPT !.raised = "ValueError"]
             ELSE [L1 EXCEPT !.c = chr(LA(L1, 1))]

\* STLexer.new_token(ttype) and new_token(ttype, text): a token of the
\* characters from start to the index, or of the text given
new_token(L, ttype, start, text) ==
    IF L.raised # "" THEN L
    ELSE [L EXCEPT !.returned =
             Append(@, [type |-> ttype,
                        text |-> IF text = NoneValue
                                 THEN SubSeq(L.input, start + 1, L.index)
                                 ELSE text])]

RECURSIVE m_text_from(_, _, _, _)
\* the loop of m_text and its return
m_text_from(L, start, buf, modified_text) ==
    IF L.raised # "" THEN L
    ELSE IF \/ L.c = "<"
            \/ L.c = "\r" \/ L.c = "\n"
            \/ L.c = "}" /\ L.subtemplate_depth > 0
    THEN new_token(L, "TEXT", start, IF modified_text THEN buf ELSE NoneValue)
    ELSE IF L.c = "\\"
    THEN IF IntEqualsStr(LA(L, 2), "\\")
         THEN m_text_from(consume(consume(L)), start, Append(buf, "\\"), TRUE)
         ELSE IF IntEqualsStr(LA(L, 2), "<") \/ IntEqualsStr(LA(L, 2), "}")
         THEN m_text_from(consume(consume(L)), start,
                          Append(buf, consume(L).c), TRUE)
         ELSE m_text_from(consume(L), start, Append(buf, L.c), modified_text)
    ELSE m_text_from(consume(L), start, Append(buf, L.c), modified_text)

\* STLexer.m_text()
m_text(L) == m_text_from(L, L.index, <<>>, FALSE)

\* STLexer.outside() on a text without blanks: the expression start, the
\* newline, the end of a sub-template, or text
outside(L) ==
    IF L.c = "<"
    THEN new_token([consume(L) EXCEPT !.scanningInsideExpr = TRUE],
                   "LDELIM", L.index, NoneValue)
    ELSE IF L.c = "\n"
    THEN new_token(consume(L), "NEWLINE", L.index, NoneValue)
    ELSE IF L.c = "}" /\ L.subtemplate_depth > 0
    THEN new_token(consume([L EXCEPT !.scanningInsideExpr = TRUE,
                                     !.subtemplate_depth = @ - 1]),
                   "RCURLY", L.index, NoneValue)
    ELSE m_text(L)

\* STLexer(err_mgr, input) at the start of a line, depth sub-templates open
\* around it
NewLexer(line, depth) ==
    /\ lexer = NoLexer
    /\ lexer' = [NoLexer EXCEPT !.input = line, !.c = chr(ord(line[1])),
                                !.subtemplate_depth = depth,
                                !.opened = depth]
    /\ UNCHANGED <<groupVars, threads, stVars, interpVars, registry, tlast,
                   group_dir, compiled>>

\* STLexer.nextToken() with no token buffered: _next_token(), which calls
\* outside() as long as scanning_inside_expr is false
NextToken ==
    /\ lexer.input # <<>>
    /\ lexer.raised = ""
    /\ ~lexer.scanning_inside_expr
    /\ lexer' = outside(lexer)
    /\ UNCHANGED <<groupVars, threads, stVars, interpVars, registry, tlast,
                   group_dir, compiled>>

NextLex ==
    \/ \E line \in Lines, depth \in {0, 1} : NewLexer(line, depth)
    \/ NextToken

SpecLex == Init /\ [][NextLex]_vars

\* the text in front of the newline
Body(line) == SubSeq(line, 1, Len(line) - 1)

RECURSIVE Escaped(_, _)
\* the text is made of letters, of closing braces where no sub-template is
\* open, and of the escapes \<, \\ and, inside a sub-template, \}
Escaped(text, depth) ==
    IF text = <<>> THEN TRUE
    ELSE IF Head(text) = "a" \/ (Head(text) = "}" /\ depth = 0)
    THEN Escaped(Tail(text), depth)
    ELSE /\ Head(text) = "\\"
         /\ Len(text) >= 2
         /\ text[2] \in {"<", "\\"} \/ (text[2] = "}" /\ depth > 0)
         /\ Escaped(Tail(Tail(text)), depth)

RECURSIVE Unescape(_)
\* an escaped text without the backslashes of its escapes
Unescape(text) ==
    IF text = <<>> THEN <<>>
    ELSE IF Head(text) = "\\" THEN <<text[2]>> \o Unescape(Tail(Tail(text)))
    ELSE <<Head(text)>> \o Unescape(Tail(text))

\* the text of the TEXT tokens returned so far
TextReturned ==
    Concat([i \in DOMAIN lexer.returned |->
              IF lexer.returned[i].type = "TEXT" THEN lexer.returned[i].text
              ELSE <<>>])

\* C22: a text in which every start delimiter, backslash and (inside a
\* sub-template) closing brace is escaped by a backslash is lexed as text
\* only: no expression starts, the sub-template is not closed, and the text
\* returned up to the newline is the text without the escaping backslashes.
C22_AsStated ==
    (lexer.input # <<>> /\ Escaped(Body(lexer.input), lexer.opened))
    => /\ \A i \in DOMAIN lexer.returned :
             lexer.returned[i].type \in {"TEXT", "NEWLINE"}
       /\ lexer.subtemplate_depth = lexer.opened
       /\ lexer.index >= Len(Body(lexer.input))
          => TextReturned = Unescape(Body(lexer.input))

---------------------------------------------------------------------------
(* The writer on its own: auto_indent_writer.py.  A client constructs an
   AutoIndentWriter over a sink, with a newline sequence and a line width,
   and calls its methods. *)

MaxWriterCalls == 4      \* method calls on one writer

Newlines == {"\n", "\r\n"}

WriterWidths == {NO_WRAP, 2}

WriterTexts == {"v1", "a\nb"}

Wraps == {NoneValue, "\n"}

\* AutoIndentWriter.push_anchor_point()
push_anchor_point(w) == [w EXCEPT !.anchors = Append(@, w.char_position)]

\* AutoIndentWriter.pop_anchor_point(): list.pop(), IndexError on an empty
\* list
pop_anchor_point(w) ==
    IF w.anchors = <<>> THEN [w |-> w, raised |-> "IndexError"]
    ELSE [w |-> [w EXCEPT !.anchors = SubSeq(@, 1, Len(@) - 1)],
          raised |-> ""]

\* AutoIndentWriter.index()
index(w) == w.char_index

\* a call on the writer: the writer it leaves, and what it was called with
WriterCall(w, op, text, wrap, raised) ==
    /\ out' = w
    /\ calls' = Append(calls, [op |-> op, text |-> text, wrap |-> wrap,
                               raised |-> raised, before |-> out])
    /\ UNCHANGED <<groupVars, threads, stVars, operands, sp, scope, ip,
                   listener, execs, ilast, prev_opcode, frames, toolVars>>

\* AutoIndentWriter(out, newline) and set_line_width(line_width)
NewWriter(newline, line_width) ==
    /\ ~Running
    /\ execs = 0
    /\ calls = <<>>
    /\ WriterCall([AutoIndentWriter EXCEPT !.newline = newline,
                                           !.line_width = line_width],
                  "new", newline, NoneValue, "")

Constructed ==
    /\ ~Running
    /\ calls # <<>>
    /\ calls[1].op = "new"
    /\ Len(calls) <= MaxWriterCalls

WriterWrite(text, wrap) ==
    /\ Constructed
    /\ WriterCall(write(out, text, wrap), "write", text, wrap, "")

WriterWriteSeparator(text) ==
    /\ Constructed
    /\ WriterCall(write_separator(out, text), "write_separator", text,
                  NoneValue, "")

PushIndentation(indent_str) ==
    /\ Constructed
    /\ WriterCall(push_indentation(out, indent_str), "push_indentation",
                  indent_str, NoneValue, "")

PopIndentation ==
    /\ Constructed
    /\ WriterCall(pop_indentation(out).w, "pop_indentation", "", NoneValue,
                  pop_indentation(out).raised)

PushAnchorPoint ==
    /\ Constructed
    /\ WriterCall(push_anchor_point(out), "push_anchor_point", "", NoneValue,
                  "")

PopAnchorPoint ==
    /\ Constructed
    /\ WriterCall(pop_anchor_point(out).w, "pop_anchor_point", "", NoneValue,
                  pop_anchor_point(out).raised)

NextWriter ==
    \/ \E newline \in Newlines, line_width \in WriterWidths :
          NewWriter(newline, line_width)
    \/ \E text \in WriterTexts, wrap \in Wraps : WriterWrite(text, wrap)
    \/ WriterWriteSeparator(",")
    \/ \E indent_str \in Indents : PushIndentation(indent_str)
    \/ PopIndentation
    \/ PushAnchorPoint
    \/ PopAnchorPoint

SpecWriter == Init /\ [][NextWriter]_vars

\* the indentation a line is to begin with: the indents of the stack from the
\* bottom up, then spaces up to the top anchor when it lies beyond them
LinePrefix(w) ==
    IndentText(w.indents)
        \o [i \in 1..(IF w.anchors = <<>> THEN 0
                      ELSE w.anchors[Len(w.anchors)]
                               - Len(IndentText(w.indents))) |-> " "]

RECURSIVE Indented(_, _, _)
\* what the sink is to receive for the characters of a text: each first
\* character of a line preceded by the line's indentation
Indented(w, chars, fresh) ==
    IF chars = <<>> THEN <<>>
    ELSE IF Head(chars) = "\r" THEN Indented(w, Tail(chars), fresh)
    ELSE IF Head(chars) = "\n"
    THEN Chars(w.newline) \o Indented(w, Tail(chars), TRUE)
    ELSE (IF fresh THEN LinePrefix(w) ELSE <<>>) \o <<Head(chars)>>
             \o Indented(w, Tail(chars), FALSE)

\* call k wrote text, and wrapped the line before it or not
Wrote(k) == calls[k].op \in {"write", "write_separator"}

Wrapped(k) ==
    /\ calls[k].wrap # NoneValue
    /\ calls[k].before.line_width # NO_WRAP
    /\ ~calls[k].before.at_start_of_line
    /\ calls[k].before.char_position >= calls[k].before.line_width

\* C23: whenever the writer emits the first character of a line, it first
\* emits the indents of the indent stack from the bottom up and then, only
\* if the top anchor lies beyond them, spaces up to the anchor; once per line
C23_IndentOncePerLine ==
    \A k \in DOMAIN calls :
        Wrote(k) =>
            LET w == calls[k].before
            IN  Written(k) =
                    IF Wrapped(k)
                    THEN Chars(w.newline) \o LinePrefix(w)
                             \o Indented(w, Chars(calls[k].text), FALSE)
                    ELSE Indented(w, Chars(calls[k].text),
                                  w.at_start_of_line)

\* a write began a line under an indent and an anchor beyond the indent
C23_Witness ==
    \E k \in DOMAIN calls :
        /\ Wrote(k)
        /\ calls[k].text = "a\nb"
        /\ IndentText(calls[k].before.indents) # <<>>
        /\ calls[k].before.anchors # <<>>
        /\ Len(LinePrefix(calls[k].before))
               > Len(IndentText(calls[k].before.indents))

\* C24: after any calls of write, write with a wrap and write_separator,
\* index() is the number of characters the writer has sent to its sink,
\* indentation, anchor padding and newline sequences included
C24_IndexCountsSink ==
    \A k \in DOMAIN calls : index(After(k)) = Len(After(k).text)

\* the sink has received indentation, anchor padding and a two-character
\* newline sequence, one of them for a wrap
C24_Witness ==
    /\ \E k \in DOMAIN calls :
          /\ Wrote(k)
          /\ calls[k].before.newline = "\r\n"
          /\ Len(LinePrefix(calls[k].before))
                 > Len(IndentText(calls[k].before.indents))
          /\ "\n" \in {Written(k)[i] : i \in DOMAIN Written(k)}
    /\ \E k \in DOMAIN calls : Wrote(k) /\ Wrapped(k)

---------------------------------------------------------------------------
(* The count exec returns: interpreter.py, exec and _exec's local n.  The
   run of SpecWrite again, with n followed instruction by instruction up to
   the return of exec. *)

MaxCountInstrs == 4      \* instructions of one counted run

CountedValues == {NoneValue, "v1", "a\nb"}

\* _exec's n so far
ExecN == IF calls = <<>> THEN 0 ELSE calls[Len(calls)].n

\* one pass of _exec's loop that adds n1 to n; done when exec has returned
\* with it, and returned is then what exec returned
Counted(M, op, opcode, o, n1) ==
    /\ IApply(Finish([M EXCEPT !.instr = [opcode |-> op, name |-> "",
                                          o |-> o, raised |-> @.raised]],
                     opcode))
    /\ calls' = Append(calls, [op |-> op, o |-> o, before |-> out,
                               n |-> ExecN + n1, done |-> M.scope = "",
                               returned |-> 0])
    /\ UNCHANGED execs

InCount == Running /\ Len(calls) < MaxCountInstrs

\* _exec, opcode INSTR_WRITE, for an o that is no template: n += n1, where
\* n1 is what the writes of _write_object_no_options returned
ExecWrite(o) ==
    /\ InCount
    /\ Counted(write_object_no_options(ICur, o), "WRITE", INSTR_WRITE, o,
               index(write_object_no_options(ICur, o).out) - index(out))

\* _exec, opcode INSTR_INDENT: out.write(indent), n is left alone
ExecIndent(indent_str) ==
    /\ InCount
    /\ Counted([ICur EXCEPT !.out = write(@, indent_str, NoneValue)],
               "INDENT", INSTR_INDENT, indent_str, 0)

\* _exec, opcode INSTR_DEDENT: out.dedent(); an exception ends exec, which
\* reports it and returns 0
ExecDedent ==
    /\ InCount
    /\ OpenIndents > 0
    /\ IF pop_indentation(out).raised # ""
       THEN Counted(internal_error(ICur, "DEDENT",
                                   pop_indentation(out).raised),
                    "DEDENT", INSTR_DEDENT, NoneValue, 0)
       ELSE Counted([ICur EXCEPT !.out = pop_indentation(out).w], "DEDENT",
                    INSTR_DEDENT, NoneValue, 0)

\* _exec, opcode INSTR_NEWLINE: out.write("\n") unless the instruction
\* before was an INSTR_NEWLINE or an INSTR_INDENT, n is left alone
ExecNewline ==
    /\ InCount
    /\ Counted(IF prev_opcode = INSTR_NEWLINE \/ prev_opcode = INSTR_INDENT
               THEN ICur
               ELSE [ICur EXCEPT !.out = write(@, "\n", NoneValue)],
               "NEWLINE", INSTR_NEWLINE, NoneValue, 0)

\* _exec's loop ends at code_size: return n, which exec returns
ExecEnd ==
    /\ Running
    /\ calls # <<>>
    /\ IApply([ICur EXCEPT !.scope = "",
                           !.instr = [opcode |-> "return", name |-> "",
                                      o |-> NoneValue, raised |-> ""]])
    /\ calls' = Append(calls, [op |-> "return", o |-> NoneValue,
                               before |-> out, n |-> ExecN, done |-> TRUE,
                               returned |-> ExecN])
    /\ UNCHANGED execs

NextCount ==
    \/ ~Running /\ execs = 0 /\ CreateStringTemplate("s1", LineImpl)
    \/ Render("sc1", NO_WRAP)
    \/ \E o \in CountedValues : ExecWrite(o)
    \/ \E i \in Indents : ExecIndent(i)
    \/ ExecDedent
    \/ ExecNewline
    \/ ExecEnd

SpecCount == Init /\ [][NextCount]_vars

\* C25: what exec returns is the growth of the writer's count of emitted
\* characters during the call, also when the run reported an error after
\* part of the output was written
C25_AsStated ==
    \A k \in DOMAIN calls :
        calls[k].done =>
            calls[k].returned = index(After(k)) - index(calls[1].before)

---------------------------------------------------------------------------
(* The type registry: misc/type_registry.py.  Keys are classes; the classes
   of the runs are A, B, D(A) and C(D, B). *)

Classes == {"A", "B", "C", "D"}

RegistryValues == {"r1", "r2"}

\* the classes issubclass(k, .) holds for
Supers(k) ==
    CASE k = "A" -> {"A"}
      [] k = "B" -> {"B"}
      [] k = "D" -> {"D", "A"}
      [] k = "C" -> {"C", "D", "A", "B"}

issubclass(k, clazz) == clazz \in Supers(k)

\* dict.get(key): None for a key the dict does not hold
dict_get(d, key) == IF key \in DOMAIN d THEN d[key] ELSE NoneValue

\* d[key] = value
dict_set(d, key, value) ==
    [k \in DOMAIN d \cup {key} |-> IF k = key THEN value ELSE d[k]]

RECURSIVE compact(_)
\* [c for c in candidates if c is not None]
compact(candidates) ==
    IF candidates = <<>> THEN <<>>
    ELSE IF Head(candidates) = NoneValue THEN compact(Tail(candidates))
    ELSE <<Head(candidates)>> \o compact(Tail(candidates))

RECURSIVE compare_from(_, _, _)
\* get's inner loop: candidates[i] against candidates[j], candidates[j+1]...
compare_from(candidates, i, j) ==
    IF j > Len(candidates) THEN candidates
    ELSE IF candidates[j] = NoneValue THEN compare_from(candidates, i, j + 1)
    ELSE IF issubclass(candidates[j], candidates[i])
    THEN [candidates EXCEPT ![i] = NoneValue]
    ELSE IF issubclass(candidates[i], candidates[j])
    THEN compare_from([candidates EXCEPT ![j] = NoneValue], i, j + 1)
    ELSE compare_from(candidates, i, j + 1)

RECURSIVE eliminate_from(_, _)
\* get's outer loop: for i in range(len(candidates) - 1)
eliminate_from(candidates, i) ==
    IF i > Len(candidates) - 1 THEN candidates
    ELSE IF candidates[i] = NoneValue THEN eliminate_from(candidates, i + 1)
    ELSE eliminate_from(compare_from(candidates, i, i + 1), i + 1)

RECURSIVE candidates_of(_, _)
\* the registered classes the key is a subclass of, in the order of the
\* backing store
candidates_of(keys, key) ==
    IF keys = <<>> THEN <<>>
    ELSE (IF issubclass(key, Head(keys)) THEN <<Head(keys)>> ELSE <<>>)
             \o candidates_of(Tail(keys), key)

\* TypeRegistry.get(key): the registry it leaves and what it returns; an
\* ambiguous match is kept in last_exception, and None is returned
get(R, key) ==
    LET R0 == [R EXCEPT !.last_exception = ""]
        candidates == candidates_of(R.keys, key)
        final_candidates == compact(eliminate_from(candidates, 1))
    IN  IF dict_get(R.values, key) # NoneValue
        THEN [R |-> R0, result |-> R.values[key], raised |-> ""]
        ELSE IF dict_get(R.cache, key) # NoneValue
        THEN [R |-> R0, result |-> dict_get(R.values, R.cache[key]),
              raised |-> ""]
        ELSE IF candidates = <<>>
        THEN [R |-> [R0 EXCEPT !.cache = dict_set(@, key, NoneValue)],
              result |-> NoneValue, raised |-> ""]
        ELSE IF Len(candidates) = 1
        THEN [R |-> [R0 EXCEPT !.cache = dict_set(@, key, candidates[1])],
              result |-> dict_get(R.values, candidates[1]), raised |-> ""]
        ELSE IF Len(final_candidates) # 1
        THEN [R |-> [R0 EXCEPT
                        !.last_exception = "AmbiguousMatchException"],
              result |-> NoneValue, raised |-> ""]
        ELSE [R |-> [R0 EXCEPT
                        !.cache = dict_set(@, key, final_candidates[1])],
              result |-> dict_get(R.values, final_candidates[1]),
              raised |-> ""]

\* _handle_alteration() that leaves the cache as it is
handle_alteration_keeping_cache(R, clazz) == R

\* TypeRegistry._handle_alteration(clazz): the cached keys that are
\* subclasses of clazz are set to None
handle_alteration(R, clazz) ==
    [R EXCEPT !.cache = [k \in DOMAIN @ |->
                            IF issubclass(k, clazz) THEN NoneValue
                            ELSE @[k]]]

\* TypeRegistry.put(key, value): an OrderedDict keeps the place of a key it
\* already holds
put(R, key, value) ==
    LET got == get(R, key)
        stored == [got.R EXCEPT
                      !.keys = IF key \in DOMAIN got.R.values THEN @
                               ELSE Append(@, key),
                      !.values = dict_set(@, key, value)]
    IN  [R |-> handle_alteration(stored, key), result |-> got.result,
         raised |-> ""]

\* TypeRegistry.remove(key)
remove(R, key) ==
    LET got == get(R, key)
    IN  IF key \in DOMAIN got.R.values
        THEN [R |-> handle_alteration(
                        [got.R EXCEPT
                            !.keys = SelectSeq(@, LAMBDA k : k # key),
                            !.values = [k \in DOMAIN @ \ {key} |-> @[k]]],
                        key),
              result |-> got.result, raised |-> ""]
        ELSE [R |-> got.R, result |-> NoneValue, raised |-> ""]

\* a call on the registry
RegistryCall(op, key, call) ==
    /\ registry' = call.R
    /\ tlast' = [op |-> op, key |-> key, result |-> call.result,
                 raised |-> call.raised]
    /\ UNCHANGED <<groupVars, threads, stVars, interpVars, lexer, group_dir,
                   compiled>>

\* the calls a client makes, each with a class for a key
Get(key) ==
    /\ key \in Classes
    /\ RegistryCall("get", key, get(registry, key))

Put(key, value) ==
    /\ key \in Classes
    /\ RegistryCall("put", key, put(registry, key, value))

Remove(key) ==
    /\ key \in Classes
    /\ RegistryCall("remove", key, remove(registry, key))

NextRegistry ==
    \/ \E key \in Classes : Get(key)
    \/ \E key \in Classes, value \in RegistryValues : Put(key, value)
    \/ \E key \in Classes : Remove(key)

SpecRegistry == Init /\ [][NextRegistry]_vars

\* the registered classes that K is a subclass of
RegisteredSupers(K) == {c \in DOMAIN registry.values : issubclass(K, c)}

\* the registered supertypes of K that are subtypes of all of them
MostSpecific(K) ==
    {c \in RegisteredSupers(K) :
        \A d \in RegisteredSupers(K) : issubclass(c, d)}

\* C26: after any put, remove and get calls, get(K) returns the value
\* registered for the unique most specific registered type K is a subtype
\* of, whatever the order of registration and whatever lookups cached
C26_MostSpecificValue ==
    \A K \in Classes :
        \A c \in MostSpecific(K) :
            /\ get(registry, K).result = registry.values[c]
            /\ (tlast.op = "get" /\ tlast.key = K)
                   => tlast.result = registry.values[c]

\* a lookup of C was answered from D, registered after A and after an
\* earlier lookup of C had cached A
C26_Witness ==
    /\ registry.keys = <<"A", "D">>
    /\ registry.values["A"] # registry.values["D"]
    /\ "C" \in DOMAIN registry.cache
    /\ registry.cache["C"] = "D"
    /\ tlast.op = "get"
    /\ tlast.key = "C"
    /\ tlast.result = registry.values["D"]

\* C27: when the registered supertypes of the queried type have no unique
\* most specific element, the lookup raises an ambiguous-match error
C27_AsStated ==
    (/\ tlast.op = "get"
     /\ RegisteredSupers(tlast.key) # {}
     /\ MostSpecific(tlast.key) = {})
        => tlast.raised = "AmbiguousMatchException"

---------------------------------------------------------------------------
(* The directory group: st_group_dir.py.  STGroupDir("/dir") over a file
   system; template names are fully qualified and begin with "/". *)

MaxLoads == 2            \* load calls on one directory group

DirRoot == "/dir"

DirNames == {"/t", "/sub/t"}

\* the files a file system of the runs may hold
FilePaths ==
    {"/dir/t.st", "/dir/sub/t.st", "/dir/sub.stg", "/dir/.stg",
     "/t.st", "/sub/t.st", "/sub.stg", "/.stg"}

GROUP_FILE_EXTENSION == ".stg"

TEMPLATE_FILE_EXTENSION == ".st"

\* Misc.get_parent(name)
get_parent(name) == IF name = "/sub/t" THEN "/sub" ELSE "/"

\* Misc.get_prefix(name): the parent, ended by "/"
get_prefix(name) ==
    IF get_parent(name) = "/" THEN get_parent(name)
    ELSE get_parent(name) \o "/"

\* Misc.get_file_name(name): os.path.basename
get_file_name(name) == "t"

\* os.path.join(a, b): a component that begins with the separator drops
\* what precedes it; parents and prefixes of qualified names all do
os_path_join(a, b) == b

\* os.path.join(a, b, c), normalised: the prefix b ends with the separator
os_path_join3(a, b, c) == os_path_join(a, b) \o c

\* urlopen(url) for a path without a scheme: ValueError, unknown url type
urlopen(url) == "ValueError"

\* STGroup.load_group_file(prefix, file_name): urlopen raises, the
\* exception is reported as CANT_LOAD_GROUP_FILE
load_group_file(D, prefix, file_name) ==
    IF urlopen(file_name) # ""
    THEN [D EXCEPT !.errs = Append(@, <<"CANT_LOAD_GROUP_FILE", file_name>>)]
    ELSE D

\* STGroupDir.load_template_file(prefix, unqualified_file_name): a file that
\* cannot be opened gives None; for one that can, the call of
\* load_template_file with the stream as a third argument reaches this
\* method of two arguments again, and its TypeError gives None as well
load_template_file(D, prefix, unqualified_file_name) ==
    IF os_path_join3(D.root, prefix, unqualified_file_name) \in D.files
    THEN [D |-> D, code |-> NoneValue, raised |-> "TypeError"]
    ELSE [D |-> D, code |-> NoneValue, raised |-> "FileNotFoundError"]

\* STGroupDir.load(name)
dir_load(D, name) ==
    LET group_file_url ==
            os_path_join(D.root, get_parent(name) \o GROUP_FILE_EXTENSION)
    IN  IF group_file_url \in D.files /\ urlopen(group_file_url) # ""
        THEN load_template_file(D, get_prefix(name),
                                get_file_name(name)
                                    \o TEMPLATE_FILE_EXTENSION)
        ELSE [D |-> load_group_file(D, get_prefix(name), group_file_url),
              code |-> dict_get(D.templates, name), raised |-> ""]

\* STGroupDir(dir_name) for a directory that exists
NewGroupDir(files) ==
    /\ group_dir = NoGroupDir
    /\ group_dir' = [NoGroupDir EXCEPT !.root = DirRoot, !.files = files]
    /\ UNCHANGED <<groupVars, threads, stVars, interpVars, lexer, registry,
                   tlast, compiled>>

\* a load(name) call; what it returned is kept with the name
DirLoad(name) ==
    /\ group_dir.root # ""
    /\ Len(group_dir.loads) < MaxLoads
    /\ group_dir' = [dir_load(group_dir, name).D EXCEPT
                        !.loads = Append(@, [name |-> name,
                                             code |-> dir_load(group_dir,
                                                               name).code])]
    /\ UNCHANGED <<groupVars, threads, stVars, interpVars, lexer, registry,
                   tlast, compiled>>

NextDir ==
    \/ \E files \in SUBSET FilePaths : NewGroupDir(files)
    \/ \E name \in DirNames : DirLoad(name)

SpecDir == Init /\ [][NextDir]_vars

\* the group file that encloses a name, and the template file that matches
\* it, in the directory of the group
EnclosingGroupFile(name) ==
    DirRoot \o get_parent(name) \o GROUP_FILE_EXTENSION

MatchingTemplateFile(name) ==
    DirRoot \o get_prefix(name) \o get_file_name(name)
        \o TEMPLATE_FILE_EXTENSION

\* C28: in a directory group, a name with no enclosing .stg group file but
\* with a matching .st file is loaded from that .st file and returned
C28_AsStated ==
    \A k \in DOMAIN group_dir.loads :
        (/\ EnclosingGroupFile(group_dir.loads[k].name) \notin group_dir.files
         /\ MatchingTemplateFile(group_dir.loads[k].name) \in group_dir.files)
            => group_dir.loads[k].code # NoneValue

---------------------------------------------------------------------------
(* unload(): st_group.py, st_group_file.py, st_group_string.py.  Groups are
   filled by definitions and lookups, import each other with and without
   clear_on_unload, and are unloaded. *)

\* the groups of these runs: a plain group and a file group
UnloadGroups == {"g1", "gf"}

NextUnload ==
    \/ \E g \in UnloadGroups : DefineTemplate(g, "/b", "t1", <<>>)
    \/ \E g, h \in UnloadGroups, clear_on_unload \in BOOLEAN :
          ImportTemplates(g, h, clear_on_unload)
    \/ \E g \in UnloadGroups : LookupTemplate(g, "/a")
    \/ \E g \in UnloadGroups : Unload(g)

SpecUnload == Init /\ [][NextUnload]_vars

\* the step is an unload() call
Unloading == last'.op = "unload"

\* the groups a sequence of imports names
Imported(seq) == {seq[i] : i \in DOMAIN seq}

\* C29: unload() empties the templates and dictionaries of the group, cached
\* not-found sentinels included, unloads every imported group, drops exactly
\* the imports added with clear_on_unload, and makes the next lookup of a
\* file or string group load the source again
C29_AsStated ==
    /\ [][Unloading =>
            /\ last'.raised = ""
            /\ \A h \in {last'.g} \cup Imported(imports[last'.g]) :
                  /\ templates'[h] = [n \in Names |-> None]
                  /\ dictionaries'[h] = {}
            /\ imports'[last'.g] =
                   RemoveAll(imports[last'.g],
                             imports_to_clear_on_unload[last'.g])
            /\ imports_to_clear_on_unload'[last'.g] = <<>>
            /\ last'.g \in LazyGroups => ~already_loaded'[last'.g]]_vars
    /\ [][(/\ last.op = "unload"
           /\ last.g \in LazyGroups
           /\ last'.op = "lookup_template"
           /\ last'.g = last.g) => parses'[last.g] = 1]_vars

---------------------------------------------------------------------------
(* Formal arguments with their index: compiler/compiled_st.py add_arg and
   define_formal_args, and the add_arg call of ST.add.  Every FormalArgument
   is a fresh object, as ST.add and the compiler make them. *)

FormalNames == {"x", "y", "z", "w"}

\* the argument lists a template definition declares
DeclaredLists ==
    {<<n>> : n \in FormalNames} \cup {<<n, m>> : n, m \in {"x", "y"}}

\* FormalArgument(name): index 0
FormalArgument(name) == [name |-> name, index |-> 0]

\* the keys of formal_arguments
FormalKeys(C) ==
    {C.formal_arguments[i].name : i \in DOMAIN C.formal_arguments}

\* add_arg() as a plain put: a.index = len(formal_arguments), and an argument
\* of a name the map holds replaces the one it holds
CompiledST_add_arg_overwriting(C, a) ==
    LET indexed == [a EXCEPT !.index = Len(C.formal_arguments)]
    IN  IF a.name \in FormalKeys(C)
        THEN [C EXCEPT !.formal_arguments =
                 [i \in DOMAIN @ |-> IF @[i].name = a.name THEN indexed
                                     ELSE @[i]]]
        ELSE [C EXCEPT !.formal_arguments = Append(@, indexed)]

\* CompiledST.add_arg(a): ValueError for a name the map holds, else
\* a.index = len(formal_arguments) and a is inserted last
CompiledST_add_arg(C, a) ==
    IF a.name \in FormalKeys(C) THEN [C EXCEPT !.raised = "ValueError"]
    ELSE [C EXCEPT !.formal_arguments =
             Append(@, [a EXCEPT !.index = Len(C.formal_arguments)])]

RECURSIVE add_args(_, _)
\* define_formal_args' loop: for a in args: self.add_arg(a)
add_args(C, args) ==
    IF args = <<>> \/ C.raised # "" THEN C
    ELSE add_args(CompiledST_add_arg(C, FormalArgument(Head(args))),
                  Tail(args))

\* a call on the CompiledST, kept with its name and its exception
CompiledCall(C, op, name) ==
    /\ compiled' = [C EXCEPT !.op = op, !.name = name]
    /\ UNCHANGED <<groupVars, threads, stVars, interpVars, lexer, registry,
                   tlast, group_dir>>

\* CompiledST.add_arg(FormalArgument(name))
AddArg(name) ==
    /\ name \in FormalNames
    /\ CompiledCall(CompiledST_add_arg([compiled EXCEPT !.raised = ""],
                                       FormalArgument(name)),
                    "add_arg", name)

\* CompiledST.define_formal_args(args), by the compiler of a definition
DefineFormalArgs(args) ==
    /\ ~compiled.has_formal_args
    /\ compiled.formal_arguments = <<>>
    /\ CompiledCall(add_args([compiled EXCEPT !.raised = "",
                                              !.has_formal_args = TRUE],
                             args),
                    "define_formal_args", Head(args))

\* ST.add(name, value) on an instance of the CompiledST, up to its add_arg:
\* a template that declares its arguments takes no other name, one that
\* does not gets a FormalArgument for each new name
STAdd(name) ==
    /\ name \in FormalNames
    /\ CompiledCall(
           IF compiled.has_formal_args
           THEN [compiled EXCEPT
                    !.raised = IF name \in FormalKeys(compiled) THEN ""
                               ELSE "ValueError"]
           ELSE IF name \in FormalKeys(compiled)
           THEN [compiled EXCEPT !.raised = ""]
           ELSE CompiledST_add_arg([compiled EXCEPT !.raised = ""],
                                   FormalArgument(name)),
           "add", name)

NextFormal ==
    \/ \E name \in FormalNames : AddArg(name)
    \/ \E args \in DeclaredLists : DefineFormalArgs(args)
    \/ \E name \in FormalNames : STAdd(name)

SpecFormal == Init /\ [][NextFormal]_vars

\* C30: after any add_arg calls on a CompiledST, those of ST.add on a
\* template without declared arguments included, the indexes of the formal
\* arguments are 0..n-1 in the order of insertion, and an add_arg of a name
\* the map holds is rejected and leaves the map as it was
C30_IndexesInOrder ==
    /\ [](\A i \in DOMAIN compiled.formal_arguments :
              compiled.formal_arguments[i].index = i - 1)
    /\ [][/\ (compiled'.op \in {"add_arg", "add"}
                 /\ compiled'.name \notin FormalKeys(compiled)
                 /\ compiled'.raised = "")
              => compiled'.formal_arguments =
                     Append(compiled.formal_arguments,
                            [name |-> compiled'.name,
                             index |-> Len(compiled.formal_arguments)])
          /\ (compiled'.op = "add_arg"
                 /\ compiled'.name \in FormalKeys(compiled))
              => /\ compiled'.raised = "ValueError"
                 /\ compiled'.formal_arguments = compiled.formal_arguments
       ]_vars

\* a template without declared arguments holds three arguments, and an
\* add_arg of the name of the first was rejected
C30_Witness ==
    /\ ~compiled.has_formal_args
    /\ Len(compiled.formal_arguments) = 3
    /\ compiled.op = "add_arg"
    /\ compiled.raised = "ValueError"
    /\ compiled.formal_arguments[1].name = compiled.name

---------------------------------------------------------------------------
(* The dispatch of _exec over the instruction table: interpreter.py 145-466
   and compiler/bytecode.py 124-174.  One pass of the loop is taken from the
   fetch on, for an opcode the loop's chain of tests names or does not. *)

MaxDispatches == 2       \* passes of the loop in one run

INSTR_OPTIONS == 20

INSTR_ARGS == 21

INSTR_LIST == 24

MAX_BYTECODE == 48

\* Bytecode.instructions[opcode] is an Instruction, not None
InTable(opcode) == opcode \in (1..MAX_BYTECODE) \ {23}

\* Bytecode.instructions[opcode].nopnds
nopnds(opcode) ==
    IF opcode \in {8, 11} THEN 2
    ELSE IF opcode \in {1, 2, 3, 4, 6, 7, 9, 10, 12, 16, 17, 18, 19, 22, 39,
                        47, 48}
    THEN 1
    ELSE 0

\* the opcodes one of _exec's tests names: INSTR_LOAD_STR to INSTR_PASSTHRU
\* and INSTR_LIST to INSTR_NEWLINE
Tested(opcode) == opcode \in (1..22) \cup (24..41)

\* what INSTR_OPTIONS, INSTR_ARGS and INSTR_LIST store
Pushed(opcode) ==
    CASE opcode = INSTR_OPTIONS -> "[None] * NUM_OPTIONS"
      [] opcode = INSTR_ARGS -> "{}"
      [] opcode = INSTR_LIST -> "[]"

\* one pass of the loop; the observer keeps the opcode, the ip of the fetch
\* and the number of errors the pass reported
Dispatched(M, opcode) ==
    /\ ~Running
    /\ Len(calls) < MaxDispatches
    /\ IApply(M)
    /\ calls' = Append(calls, [op |-> "dispatch", opcode |-> opcode,
                               ip |-> ip,
                               errors |-> Len(M.listener) - Len(listener)])
    /\ UNCHANGED execs

\* _exec, opcodes INSTR_OPTIONS, INSTR_ARGS, INSTR_LIST:
\* self.operands[++self.sp] = value
DispatchPush(opcode) ==
    /\ Tested(opcode)
    /\ Dispatched(store_operand([ICur EXCEPT !.ip = ip + 1], "push", "",
                                Pushed(opcode)),
                  opcode)

\* _exec, the else of the chain: INVALID_BYTECODE is reported, and the loop
\* goes on from the byte after the opcode
DispatchElse(opcode) ==
    /\ ~Tested(opcode)
    /\ Dispatched(run_time_error([ICur EXCEPT !.ip = ip + 1],
                                 "INVALID_BYTECODE", opcode),
                  opcode)

NextDispatch ==
    \/ \E opcode \in {INSTR_OPTIONS, INSTR_ARGS, INSTR_LIST} :
          DispatchPush(opcode)
    \/ \E opcode \in 0..MAX_BYTECODE : DispatchElse(opcode)

SpecDispatch == Init /\ [][NextDispatch]_vars

\* C31: every opcode of the instruction table is executed without a report
\* of invalid bytecode, and the instruction pointer then stands 1 plus 2
\* bytes per operand after the opcode
C31_AsStated ==
    \A k \in DOMAIN calls :
        InTable(calls[k].opcode) =>
            /\ calls[k].errors = 0
            /\ IpAfter(k) = calls[k].ip + 1
                                + OPND_SIZE_IN_BYTES * nopnds(calls[k].opcode)

---------------------------------------------------------------------------
(* The operand stack over the instructions of a run (SpecInterp) *)

\* the step just taken executed an instruction that loads a value, without
\* an exception
Loaded ==
    /\ Running
    /\ scope' = scope
    /\ ip' # ip
    /\ ilast'.opcode \in {"LOAD_ATTR", "LOAD_LOCAL"}
    /\ ilast'.raised = ""

\* C32: an opcode that produces a value raises the depth of the operand
\* stack by exactly one and leaves its value on top, INSTR_WRITE pops one
\* value, and the stack pointer never falls below -1
C32_AsStated ==
    /\ [](sp >= -1)
    /\ [][Loaded => /\ sp' = sp + 1
                    /\ operands'[sp'] = ilast'.o]_vars

---------------------------------------------------------------------------
(* Operands in the code array: compilation_state.py write_short, and the
   two readers, interpreter.py _get_short and bytecode_disassembler.py
   get_short *)

\* the values an operand of two bytes can hold
Shorts == 0..(ByteRange * ByteRange - 1)

\* BytecodeDisassembler.get_short(memory, index):
\* (memory[index] << 8) | memory[index + 1]
disassembler_get_short(memory, addr) ==
    memory[addr + 1] * ByteRange + memory[addr + 2]

\* the compiler writes a value into a code array, and both readers read it
WriteShort ==
    /\ calls = <<>>
    /\ \E value \in Shorts :
           calls' = <<[op |-> "write_short", value |-> value,
                       memory |-> write_short(value),
                       interpreter |-> get_short(write_short(value), 0),
                       disassembler |->
                           disassembler_get_short(write_short(value), 0)]>>
    /\ UNCHANGED <<groupVars, threads, stVars, operands, sp, scope, ip, out,
                   listener, execs, ilast, prev_opcode, frames, toolVars>>

NextShort == WriteShort

SpecShort == Init /\ [][NextShort]_vars

\* C33: the two bytes the compiler writes for a value of 0..65535, high byte
\* first, are read back as that value by the interpreter and by the
\* disassembler
C33_AsStated ==
    \A k \in DOMAIN calls :
        /\ calls[k].interpreter = calls[k].value
        /\ calls[k].disassembler = calls[k].value

---------------------------------------------------------------------------
(* INSTR_NEWLINE after INSTR_NEWLINE or INSTR_INDENT, on the runs of
   SpecWrite *)

\* the newlines among the characters
NewlinesIn(chars) == Cardinality({i \in DOMAIN chars : chars[i] = "\n"})

\* instructions i..j of the run are INSTR_NEWLINEs and INSTR_INDENTs only
NewlineIndentRun(i, j) ==
    /\ i <= j
    /\ \A k \in i..j : calls[k].op \in {"NEWLINE", "INDENT"}

\* the characters instructions i..j of the run added to the output
WrittenBy(i, j) ==
    SubSeq(After(j).text, Len(calls[i].before.text) + 1, Len(After(j).text))

\* C34: an INSTR_NEWLINE that follows an INSTR_INDENT or an INSTR_NEWLINE
\* writes nothing, and the instructions of a run of INSTR_NEWLINEs and
\* INSTR_INDENTs write at most one newline between them
C34_NewlineCoalesces ==
    /\ \A k \in DOMAIN calls :
           (/\ k > 1
            /\ calls[k].op = "NEWLINE"
            /\ calls[k - 1].op \in {"NEWLINE", "INDENT"})
               => Written(k) = <<>>
    /\ \A i, j \in DOMAIN calls :
           NewlineIndentRun(i, j) => NewlinesIn(WrittenBy(i, j)) <= 1

\* a run INSTR_NEWLINE, INSTR_INDENT, INSTR_NEWLINE whose first instruction
\* wrote the one newline and whose last wrote nothing
C34_Witness ==
    /\ Len(calls) >= 3
    /\ calls[1].op = "NEWLINE"
    /\ calls[2].op = "INDENT"
    /\ calls[3].op = "NEWLINE"
    /\ NewlinesIn(Written(1)) = 1
    /\ Written(2) # <<>>
    /\ Written(3) = <<>>

---------------------------------------------------------------------------
(* AutoIndentWriter.char_position and the line being written, on the runs
   of SpecWriter *)

RECURSIVE CurrentLine(_)
\* the characters of the sink after its last newline
CurrentLine(chars) ==
    IF chars = <<>> THEN <<>>
    ELSE IF chars[Len(chars)] = "\n" THEN <<>>
    ELSE Append(CurrentLine(SubSeq(chars, 1, Len(chars) - 1)),
                chars[Len(chars)])

\* C36: after every write, char_position is the number of characters the
\* sink holds on its current line, 0 right after a newline
C36_AsStated ==
    (calls # <<>> /\ calls[1].op = "new")
        => out.char_position = Len(CurrentLine(out.text))

---------------------------------------------------------------------------
(* The lexer's two modes, on the lines of SpecLex: no line holds the stop
   delimiter, so what follows a start delimiter lies inside an expression *)

\* C35: once the lexer has returned the start delimiter it scans inside the
\* expression, and returns no TEXT token for the input behind the delimiter
\* before it returns the stop delimiter
C35_AsStated ==
    \A i \in DOMAIN lexer.returned :
        lexer.returned[i].type = "LDELIM"
        => /\ i = Len(lexer.returned) => lexer.scanning_inside_expr
           /\ \A j \in (i + 1)..Len(lexer.returned) :
                  lexer.returned[j].type # "TEXT"

---------------------------------------------------------------------------
(* A definition over the cached NOT_FOUND_ST, on the runs of SpecLookup *)

\* the most recent call was define_template for a name whose entry was the
\* sentinel
DefinedOverSentinel ==
    last.op = "define_template" /\ last.prev = NOT_FOUND_ST

\* the definition was reported as a redefinition and the sentinel is still
\* the entry
RejectedAsRedefinition ==
    /\ last.errs = <<"TEMPLATE_REDEFINITION">>
    /\ templates[last.g][last.name] = NOT_FOUND_ST
    /\ ~last.changed

\* a lookup of n on g in this step returns not found
LookupFails(g, n) ==
    (last'.op = "lookup_template" /\ last'.g = g /\ last'.name = n)
        => last'.raised = "" /\ last'.code = None

\* C37 as stated: a definition over the sentinel is reported as
\* TEMPLATE_REDEFINITION and leaves the sentinel, and as long as unload() has
\* not been called on the group the entry stays the sentinel and lookups of
\* the name return not found.
C37_AsStated ==
    /\ [](DefinedOverSentinel => RejectedAsRedefinition)
    /\ [][\A g \in Groups, n \in Names :
            (templates[g][n] = NOT_FOUND_ST /\ g \notin last'.unloaded)
                => /\ templates'[g][n] = NOT_FOUND_ST
                   /\ LookupFails(g, n)]_vars

\* C37 (amended): a definition over the sentinel is reported as
\* TEMPLATE_REDEFINITION and leaves the sentinel, and as long as neither
\* unload() nor undefine_template(n) has been called on the group the entry
\* stays the sentinel and lookups of the name return not found.
C37_SentinelRedefinition ==
    /\ [](DefinedOverSentinel => RejectedAsRedefinition)
    /\ [][\A g \in Groups, n \in Names :
            (/\ templates[g][n] = NOT_FOUND_ST
             /\ g \notin last'.unloaded
             /\ ~(/\ last'.op = "undefine_template"
                  /\ last'.g = g
                  /\ last'.name = n))
                => /\ templates'[g][n] = NOT_FOUND_ST
                   /\ LookupFails(g, n)]_vars

\* a definition was rejected over the sentinel that a failed lookup left
C37_Witness ==
    /\ DefinedOverSentinel
    /\ RejectedAsRedefinition
    /\ last.code.body = "t1"

---------------------------------------------------------------------------
(* lookup_template over the import graphs of SpecLookup, in which a group
   may import itself and two groups may import each other *)

\* C38: whatever the imports are, a call of lookup_template comes to an end
\* and returns, a template or not found
C38_AsStated ==
    last.op = "lookup_template" => last.raised = ""

---------------------------------------------------------------------------
(* The recursion of _write_object_with_options, on the runs of SpecWrite *)

\* instruction k wrote a string with options that ask for no wrap
WroteString(k) ==
    /\ calls[k].op = "WRITE_OPT"
    /\ calls[k].o # NoneValue
    /\ ~IsList(calls[k].o)
    /\ calls[k].options.wrap = NoneValue

\* C39: a value written with options is written by calls no deeper than the
\* value is nested, so no write ends in the recursion limit, and a string is
\* written as its text
C39_AsStated ==
    /\ \A i \in DOMAIN listener : listener[i][1] # "WRITE_IO_ERROR"
    /\ \A k \in DOMAIN calls :
           WroteString(k) => Written(k) = Chars(calls[k].o)
===========================================================================
